---- MODULE Spec2Model ----
(***************************************************************************)
(* A model of the Recursive Distill analysis scripts of                      *)
(* src/coherence.scripts.js: coherence-check.js (the Coherence Scorer),     *)
(* attribution-map.js (the Attribution Graph Builder), residue-analysis.js  *)
(* (the Residue Classifier) and coherence-report.js (the Trend Reporter).   *)
(*                                                                         *)
(* Scores are fixed-point hundredths (Scale = 1.00), the resolution at      *)
(* which the scripts print them (toFixed(2)); every division truncates.     *)
(* Timestamps are integers (milliseconds); an ISO string and the Date it    *)
(* parses to denote the same integer.                                       *)
(*                                                                         *)
(* The scripts are separate processes that meet only in the files of meta/. *)
(* Each has its own specification over the shared variables: SpecScore (the *)
(* scoring functions applied to bounded inputs), SpecCheck, SpecAttribution,*)
(* SpecResidue and SpecReport.                                              *)
(***************************************************************************)
EXTENDS Integers, Sequences, FiniteSets, TLC

(***************************************************************************)
(* Bounds of the model.                                                     *)
(***************************************************************************)
MaxSents == 3
MaxItems == 2

(***************************************************************************)
(* Program constants.                                                       *)
(***************************************************************************)
Scale == 100
ThresholdSignal == 70
ThresholdFeedback == 70
ThresholdBounded == 70
ThresholdElastic == 70
ThresholdOverall == 70
WeightSignal == 1
WeightFeedback == 1
WeightBounded == 1
WeightElastic == 1
TargetDensity == 50
Neutral == 50
FactorThreshold == 70

(***************************************************************************)
(* State.  The five files under meta/ outlive the runs; everything else is  *)
(* the memory of one run of one script (or, for events, the repository and  *)
(* the platform the builder reads).                                         *)
(***************************************************************************)
VARIABLES
  coherenceFile,       \* meta/coherence.json
  attributionFile,     \* meta/attribution.json
  residueFile,         \* meta/residue.json
  historyFile,         \* meta/coherence-history.json
  reportFile,          \* meta/coherence-report.json
  probe, scored,       \* a function's input and a scoring function's result
  fetch,               \* the retrieval loop of a platform fetcher
  workflow,            \* the jobs of one run of publish.yml
  pcC, docs, platform, signalAlignment, feedbackResponsiveness, boundedIntegrity,
  elasticTolerance, overallScore, coherenceReport, exitCode,   \* checkCoherence
  pcA, events, attributionGraph, folded, prevFolded,           \* generateAttributionMap
  pcR, sources, residueCatalog, found, prevFound,              \* analyzeResidue
  pcT, coherenceHistory, currentCoherence, report, exitT       \* generateCoherenceReport

scoreVars == <<probe, scored, fetch, workflow>>
checkVars == <<pcC, docs, platform, signalAlignment, feedbackResponsiveness, boundedIntegrity,
               elasticTolerance, overallScore, coherenceReport, exitCode>>
attrVars == <<pcA, events, attributionGraph, folded, prevFolded>>
resVars == <<pcR, sources, residueCatalog, found, prevFound>>
repVars == <<pcT, coherenceHistory, currentCoherence, report, exitT>>
fileVars == <<coherenceFile, attributionFile, residueFile, historyFile, reportFile>>
vars == <<fileVars, scoreVars, checkVars, attrVars, resVars, repVars>>

Min(a, b) == IF a < b THEN a ELSE b
Max(a, b) == IF a > b THEN a ELSE b

RECURSIVE Pow(_, _)
Pow(x, n) == IF n = 0 THEN 1 ELSE x * Pow(x, n - 1)

\* floor of the n-th root of p, for 0 <= p <= Scale^n
RootN(p, n) == CHOOSE r \in 0..Scale : Pow(r, n) <= p /\ Pow(r + 1, n) > p

(***************************************************************************)
(* Documents as parseArticleContents returns them, reduced to what the      *)
(* scorer reads.  A sentence (content.split(/\.\s+/)) is its text identity  *)
(* txt, the number of citation markers [^x] in it, and the place of its     *)
(* claim indicator: verb = 0 when it has none, verb = k when its indicator  *)
(* match ends at offset k (and starts at k - 1).  paras is                  *)
(* content.split('\n\n').length, at least 1.                                *)
(***************************************************************************)
Sentence == [verb : {0, 1, 2}, cites : {0, 1}, txt : {1}]

RECURSIVE SeqsUpTo(_, _)
SeqsUpTo(S, n) ==
  IF n = 0 THEN {<<>>}
  ELSE LET shorter == SeqsUpTo(S, n - 1)
       IN shorter \cup {Append(s, x) : s \in {t \in shorter : Len(t) = n - 1}, x \in S}

Article == [sents : SeqsUpTo(Sentence, MaxSents) \ {<<>>}, paras : {1, 2}]

RECURSIVE SumCites(_)
SumCites(sents) == IF sents = <<>> THEN 0 ELSE Head(sents).cites + SumCites(Tail(sents))

RECURSIVE TotalCitations(_)
TotalCitations(articles) ==
  IF articles = <<>> THEN 0
  ELSE SumCites(Head(articles).sents) + TotalCitations(Tail(articles))

RECURSIVE TotalParagraphs(_)
TotalParagraphs(articles) ==
  IF articles = <<>> THEN 0 ELSE Head(articles).paras + TotalParagraphs(Tail(articles))

Clamp01(x) == Max(0, Min(Scale, x))

\* a target of one citation for each paragraph
analyzeArticleCitationsPerParagraph(articles) ==
  LET totalCitations == TotalCitations(articles)
      totalParagraphs == TotalParagraphs(articles)
      density == IF totalParagraphs > 0
                 THEN (totalCitations * Scale) \div totalParagraphs ELSE 0
  IN [citations |-> totalCitations, paragraphs |-> totalParagraphs,
      density |-> density, score |-> Clamp01(Min(Scale, density))]

analyzeArticleCitations(articles) ==
  LET totalCitations == TotalCitations(articles)
      totalParagraphs == TotalParagraphs(articles)
      density == IF totalParagraphs > 0
                 THEN (totalCitations * Scale) \div totalParagraphs ELSE 0
      score == Min(Scale, (density * Scale) \div TargetDensity)
  IN [citations |-> totalCitations, paragraphs |-> totalParagraphs,
      density |-> density, score |-> Clamp01(score)]

RECURSIVE IndexOf(_, _, _)
IndexOf(s, x, i) ==
  IF i > Len(s) THEN 0 ELSE IF s[i] = x THEN i ELSE IndexOf(s, x, i + 1)

\* sentences.forEach of one article; acc carries claimRegex.lastIndex (the
\* regex has the g flag and is created once per call of findUnsupportedClaims)
RECURSIVE scanSentences(_, _, _)
scanSentences(sents, i, acc) ==
  IF i > Len(sents) THEN acc
  ELSE LET sentence == sents[i]
           isClaim == sentence.verb > acc.lastIndex
           next == IndexOf(sents, sentence, 1) + 1
           hasCitation == \/ sentence.cites > 0
                          \/ next <= Len(sents) /\ sents[next].cites > 0
       IN scanSentences(sents, i + 1,
            [lastIndex |-> IF isClaim THEN sentence.verb ELSE 0,
             totalClaims |-> acc.totalClaims + (IF isClaim THEN 1 ELSE 0),
             unsupportedCount |-> acc.unsupportedCount
                                  + (IF isClaim /\ ~hasCitation THEN 1 ELSE 0)])

RECURSIVE scanArticles(_, _)
scanArticles(articles, acc) ==
  IF articles = <<>> THEN acc
  ELSE scanArticles(Tail(articles), scanSentences(Head(articles).sents, 1, acc))

findUnsupportedClaims(articles) ==
  LET acc == scanArticles(articles,
               [lastIndex |-> 0, totalClaims |-> 0, unsupportedCount |-> 0])
      unsupportedRate == IF acc.totalClaims > 0
                         THEN (acc.unsupportedCount * Scale) \div acc.totalClaims ELSE 0
      score == Scale - Min(Scale, unsupportedRate * 2)
  IN [totalClaims |-> acc.totalClaims, unsupportedClaims |-> acc.unsupportedCount,
      unsupportedRate |-> unsupportedRate, score |-> Clamp01(score)]

\* the files beside the documents: data/**, data/README.md, code/**, content images
Assets == [dataFiles : BOOLEAN, hasDataReadme : BOOLEAN, code : BOOLEAN, results : BOOLEAN]

analyzeDataIntegrity(assets) ==
  LET score == 50 + (IF assets.dataFiles THEN 20 ELSE 0)
                  + (IF assets.hasDataReadme THEN 20 ELSE 0)
                  + (IF assets.code THEN 10 ELSE 0)
  IN [score |-> Min(Scale, score)]

evaluateCodeConsistency(assets) ==
  LET score == 50 + (IF assets.code THEN 25 ELSE 0) + (IF assets.results THEN 25 ELSE 0)
  IN [score |-> Min(Scale, score)]

\* details are the values the detail strings print; the second one prints
\* unsupportedClaims.count, a field findUnsupportedClaims does not return
calculateSignalAlignment(articles, assets) ==
  LET citationAnalysis == analyzeArticleCitations(articles)
      unsupportedClaims == findUnsupportedClaims(articles)
      citationScore == citationAnalysis.score
      claimsScore == unsupportedClaims.score
      dataScore == analyzeDataIntegrity(assets).score
      codeScore == evaluateCodeConsistency(assets).score
      score == (citationScore * 30 + claimsScore * 30 + dataScore * 20 + codeScore * 20)
               \div Scale
  IN [score |-> score,
      details |-> <<citationAnalysis.density, "undefined", dataScore, codeScore>>,
      components |-> <<citationScore, claimsScore, dataScore, codeScore>>]

(***************************************************************************)
(* What a platform or git query answers: ok = FALSE when the call throws,   *)
(* else n items of which k have the property that is counted.               *)
(***************************************************************************)
Query == {q \in [ok : BOOLEAN, n : 0..MaxItems, k : 0..MaxItems] :
            q.k <= q.n /\ (~q.ok => q.n = 0)}

analyzeOpenIssues(q) ==
  IF q.ok
  THEN LET responseRate == IF q.n > 0 THEN (q.k * Scale) \div q.n ELSE Scale
       IN [rate |-> responseRate, score |-> 50 + (responseRate * 50) \div Scale]
  ELSE [rate |-> Scale, score |-> Neutral]

analyzeIssueResolution(q) ==
  IF q.ok
  THEN LET resolutionRate == IF q.n > 0 THEN (q.k * Scale) \div q.n ELSE Scale
       IN [rate |-> resolutionRate, score |-> 50 + (resolutionRate * 50) \div Scale]
  ELSE [rate |-> Scale, score |-> Neutral]

\* n = merged PRs with review comments, k = those with commits after the review
analyzePRReviews(q) ==
  IF q.ok
  THEN LET integrationRate == IF q.n > 0 THEN (q.k * Scale) \div q.n ELSE Scale
       IN [rate |-> integrationRate, score |-> 50 + (integrationRate * 50) \div Scale]
  ELSE [rate |-> Scale, score |-> Neutral]

\* a failed git log counted as a history without feedback commits
analyzeContentHistoryZero(q) ==
  IF q.ok
  THEN LET revisionRate == IF q.n > 0 THEN (q.k * Scale) \div q.n ELSE 0
       IN [rate |-> revisionRate, score |-> Clamp01(Min(Scale, (revisionRate * 25) \div 10))]
  ELSE [rate |-> 0, score |-> 0]

\* the score as the revision rate itself, without the factor 2.5
analyzeContentHistoryUnscaled(q) ==
  IF q.ok
  THEN LET revisionRate == IF q.n > 0 THEN (q.k * Scale) \div q.n ELSE 0
       IN [rate |-> revisionRate, score |-> Clamp01(Min(Scale, revisionRate))]
  ELSE [rate |-> 0, score |-> Neutral]

\* n = lines of git log (at least 1: ''.split('\n').length), k = feedback commits
analyzeContentHistory(q) ==
  IF q.ok
  THEN LET revisionRate == IF q.n > 0 THEN (q.k * Scale) \div q.n ELSE 0
           score == Min(Scale, (revisionRate * 25) \div 10)
       IN [rate |-> revisionRate, score |-> Clamp01(score)]
  ELSE [rate |-> 0, score |-> Neutral]

calculateFeedbackResponsiveness(qOpen, qClosed, qPR, qLog) ==
  LET openIssuesAnalysis == analyzeOpenIssues(qOpen)
      issueResolutionAnalysis == analyzeIssueResolution(qClosed)
      prReviewAnalysis == analyzePRReviews(qPR)
      feedbackInHistory == analyzeContentHistory(qLog)
      score == (openIssuesAnalysis.score * 20 + issueResolutionAnalysis.score * 30
                + prReviewAnalysis.score * 30 + feedbackInHistory.score * 20) \div Scale
  IN [score |-> score,
      details |-> <<openIssuesAnalysis.rate, issueResolutionAnalysis.rate,
                    prReviewAnalysis.rate, feedbackInHistory.rate>>,
      components |-> <<openIssuesAnalysis.score, issueResolutionAnalysis.score,
                       prReviewAnalysis.score, feedbackInHistory.score>>]

(***************************************************************************)
(* What analyzeScopeIntegrity and analyzeTopicDrift read from the documents:*)
(* whether scope or tags are declared, n unique scope terms of which k occur*)
(* in the text; the number of articles, the sections of the main article and*)
(* how many of them overlap the main topics by 0.3 or more.                 *)
(***************************************************************************)
ScopeInput == {sc \in [declared : BOOLEAN, n : 0..MaxItems, k : 0..MaxItems] : sc.k <= sc.n}
DriftInput == {dr \in [articles : 0..1, sections : 0..MaxItems, cohesive : 0..MaxItems] :
                 /\ dr.cohesive <= dr.sections
                 /\ (dr.articles = 0) = (dr.sections = 0)}

analyzeScopeIntegrity(sc) ==
  LET scopeCoverage == IF sc.n > 0 THEN (sc.k * Scale) \div sc.n ELSE 0
      scopeScore == (IF sc.declared THEN 50 ELSE 30) + (scopeCoverage * 50) \div Scale
  IN [scopeCoverage |-> scopeCoverage, score |-> Min(Scale, scopeScore)]

\* the first article read without the guard for an empty list
analyzeTopicDriftUnguarded(dr) ==
  LET cohesionRate == IF dr.sections > 0
                      THEN (dr.cohesive * Scale) \div dr.sections ELSE 0
      driftScore == Scale - cohesionRate
      score == Scale - (driftScore * 70) \div Scale
  IN [driftScore |-> driftScore, score |-> Clamp01(score)]

analyzeTopicDrift(dr) ==
  IF dr.articles = 0
  THEN [driftScore |-> 0, score |-> Neutral]
  ELSE LET cohesionRate == IF dr.sections > 0
                           THEN (dr.cohesive * Scale) \div dr.sections ELSE 0
           driftScore == Scale - cohesionRate
           score == Scale - (driftScore * 70) \div Scale
       IN [driftScore |-> driftScore, score |-> Clamp01(score)]

evaluateTermConsistency == [consistencyRate |-> 85, score |-> 85]

analyzeMethodBoundaries == [violationRate |-> 0, score |-> 90]

calculateBoundedIntegrity(sc, dr) ==
  LET scopeScore == analyzeScopeIntegrity(sc).score
      driftScore == analyzeTopicDrift(dr).score
      termScore == evaluateTermConsistency.score
      methodScore == analyzeMethodBoundaries.score
      score == (scopeScore * 30 + driftScore * 30 + termScore * 20 + methodScore * 20)
               \div Scale
  IN [score |-> score,
      details |-> <<scopeScore, driftScore, termScore, methodScore>>,
      components |-> <<scopeScore, driftScore, termScore, methodScore>>]

analyzeContradictions == [integrationRate |-> 67, score |-> 80]

analyzeMultiplePerspectives == [balanceScore |-> 70, score |-> 70]

evaluateUncertaintyRepresentation == [uncertaintyMarkers |-> 5, score |-> 80]

analyzeLimitationAcknowledgment == [limitationCount |-> 3, score |-> 85]

calculateElasticTolerance ==
  LET contradictionScore == analyzeContradictions.score
      perspectiveScore == analyzeMultiplePerspectives.score
      uncertaintyScore == evaluateUncertaintyRepresentation.score
      limitationScore == analyzeLimitationAcknowledgment.score
      score == (contradictionScore * 25 + perspectiveScore * 25
                + uncertaintyScore * 25 + limitationScore * 25) \div Scale
  IN [score |-> score,
      details |-> <<contradictionScore, perspectiveScore, uncertaintyScore, limitationScore>>,
      components |-> <<contradictionScore, perspectiveScore, uncertaintyScore,
                       limitationScore>>]

\* the arithmetic mean in place of the weighted geometric mean
calculateOverallCoherenceMean(signal, feedback, bounded, elastic) ==
  (signal + feedback + bounded + elastic) \div 4

\* (s * f * b * l) ** (1 / totalWeight); the product of the four fixed-point
\* values is in units of Scale^totalWeight, its root in units of Scale
calculateOverallCoherence(signal, feedback, bounded, elastic) ==
  LET s == Pow(signal, WeightSignal)
      f == Pow(feedback, WeightFeedback)
      b == Pow(bounded, WeightBounded)
      l == Pow(elastic, WeightElastic)
      totalWeight == WeightSignal + WeightFeedback + WeightBounded + WeightElastic
  IN RootN(s * f * b * l, totalWeight)

RecommendationTexts ==
  [signalAlignment |->
     <<"Strengthen citation network", "Address unsupported claims",
       "Improve data integrity", "Ensure code and results are consistent">>,
   feedbackResponsiveness |->
     <<"Address open issues more promptly", "Improve issue resolution rate",
       "Better integrate PR review feedback", "Ensure content evolution reflects feedback">>,
   boundedIntegrity |->
     <<"Ensure content stays within declared scope", "Reduce topic drift",
       "Improve term consistency", "Maintain methodological boundaries">>,
   elasticTolerance |->
     <<"Better acknowledge contradictory evidence", "Include multiple perspectives",
       "More clearly represent uncertainty", "Acknowledge limitations">>]

\* the remediation strings of one component: none unless its score is below
\* the threshold, then one per factor below 0.7, in declaration order
RecommendationsFor(result, threshold, texts) ==
  IF result.score < threshold
  THEN LET low == SelectSeq(<<1, 2, 3, 4>>, LAMBDA i : result.components[i] < FactorThreshold)
       IN [j \in 1..Len(low) |-> texts[low[j]]]
  ELSE <<>>

\* recommendations for the first component only
generateRecommendationsSignalOnly(analysis) ==
  RecommendationsFor(analysis.signalAlignment, ThresholdSignal,
                     RecommendationTexts.signalAlignment)

generateRecommendations(analysis) ==
  RecommendationsFor(analysis.signalAlignment, ThresholdSignal,
                     RecommendationTexts.signalAlignment)
  \o RecommendationsFor(analysis.feedbackResponsiveness, ThresholdFeedback,
                        RecommendationTexts.feedbackResponsiveness)
  \o RecommendationsFor(analysis.boundedIntegrity, ThresholdBounded,
                        RecommendationTexts.boundedIntegrity)
  \o RecommendationsFor(analysis.elasticTolerance, ThresholdElastic,
                        RecommendationTexts.elasticTolerance)

(***************************************************************************)
(* The scoring functions applied to inputs drawn from the bounded sets: one *)
(* component, or the combination, at a time.                                *)
(***************************************************************************)
\* nothing yet: no probe, no object loaded, no earlier run
None == [kind |-> "none"]
NoScore == -1
GridScores == {0, 1, 50, 70, 100}
\* one document of one sentence with up to MaxCites citation markers and up to
\* MaxParas paragraphs; a git log of up to MaxCommits commits
MaxCites == 5
MaxParas == 10
MaxCommits == 5

Probes ==
  {[kind |-> "signal", articles |-> as, assets |-> a] :
     as \in SeqsUpTo(Article, 1), a \in Assets}
  \cup {[kind |-> "feedback", qOpen |-> q1, qClosed |-> q2, qPR |-> q3, qLog |-> q4] :
          q1 \in Query, q2 \in Query, q3 \in Query,
          q4 \in {q \in Query : q.ok => q.n >= 1}}
  \cup {[kind |-> "bounded", sc |-> sc, dr |-> dr] : sc \in ScopeInput, dr \in DriftInput}
  \cup {[kind |-> "citations",
          articles |-> <<[sents |-> <<[verb |-> 0, cites |-> c, txt |-> 1]>>, paras |-> p]>>] :
          c \in 0..MaxCites, p \in 1..MaxParas}
  \cup {[kind |-> "history", qLog |-> q] :
          q \in {r \in [ok : {TRUE}, n : 1..MaxCommits, k : 0..MaxCommits] : r.k <= r.n}}
  \cup {[kind |-> "elastic"]}
  \cup {[kind |-> "overall", s |-> s, f |-> f, b |-> b, l |-> l] :
          s \in GridScores, f \in GridScores, b \in GridScores, l \in GridScores}

ProbeScore(p) ==
  CASE p.kind = "signal" -> calculateSignalAlignment(p.articles, p.assets).score
    [] p.kind = "feedback" ->
         calculateFeedbackResponsiveness(p.qOpen, p.qClosed, p.qPR, p.qLog).score
    [] p.kind = "bounded" -> calculateBoundedIntegrity(p.sc, p.dr).score
    [] p.kind = "citations" -> analyzeArticleCitations(p.articles).score
    [] p.kind = "history" -> analyzeContentHistory(p.qLog).score
    [] p.kind = "elastic" -> calculateElasticTolerance.score
    [] p.kind = "overall" -> calculateOverallCoherence(p.s, p.f, p.b, p.l)

ApplyScore ==
  /\ probe # None
  /\ scored = NoScore
  /\ scored' = ProbeScore(probe)
  /\ UNCHANGED <<probe, fetch, workflow, fileVars, checkVars, attrVars, resVars, repVars>>

\* an author adds a citation marker to a sentence that has none, after its
\* assertion verb, and calculateSignalAlignment runs on the edited documents
AddCitation ==
  /\ probe.kind = "signal"
  /\ scored # NoScore
  /\ \E a \in 1..Len(probe.articles) :
       \E i \in 1..Len(probe.articles[a].sents) :
         /\ probe.articles[a].sents[i].cites = 0
         /\ probe' = [probe EXCEPT !.articles[a].sents[i].cites = 1]
         /\ scored' = ProbeScore(probe')
  /\ UNCHANGED <<fetch, workflow, fileVars, checkVars, attrVars, resVars, repVars>>

(***************************************************************************)
(* coherence-check.js: one run of checkCoherence.                           *)
(*                                                                         *)
(* docs is the content directory the run reads (parseArticleContents) and   *)
(* platform what the platform and git log answered to the four queries of   *)
(* calculateFeedbackResponsiveness; the other inputs are drawn where the    *)
(* run awaits them.                                                         *)
(***************************************************************************)
Null == [kind |-> "null"]
Absent == [kind |-> "absent"]
NoExit == -1

RunDocs == SeqsUpTo({a \in Article : Len(a.sents) = 1 /\ a.sents[1].verb <= 1 /\ a.paras = 1}, 1)
RunAssets == {a \in Assets : a.dataFiles = a.hasDataReadme /\ a.hasDataReadme = a.results
                              /\ (a.results => a.code)}
RunQuery == {q \in Query : q.n <= 1}
RunLog == {q \in RunQuery : q.ok => q.n = 1}
RunScope(d) == {sc \in ScopeInput : sc.n <= 1 /\ (d = <<>> => ~sc.declared /\ sc.n = 0)}
RunDrift(d) == {dr \in DriftInput : dr.articles = Len(d) /\ dr.sections <= 1}

\* process.exit of lines 122-128
ExitStatusSwapped(score) == IF score > ThresholdOverall THEN 1 ELSE 0

ExitStatus(score) == IF score < ThresholdOverall THEN 1 ELSE 0

\* the coherenceReport object of lines 76-102
BuildReport(sig, fb, bnd, ela, overall) ==
  [overallScore |-> overall,
   components |-> [signalAlignment |-> sig.score, feedbackResponsiveness |-> fb.score,
                   boundedIntegrity |-> bnd.score, elasticTolerance |-> ela.score],
   details |-> [signalAlignment |-> sig.details, feedbackResponsiveness |-> fb.details,
                boundedIntegrity |-> bnd.details, elasticTolerance |-> ela.details],
   recommendations |-> generateRecommendations(
                         [signalAlignment |-> sig, feedbackResponsiveness |-> fb,
                          boundedIntegrity |-> bnd, elasticTolerance |-> ela]),
   metadata |-> [version |-> "local", recursiveDepth |-> 1]]

\* JSON.stringify of a coherence report: finite numbers, strings and arrays
StringifyReport(r) ==
  [kind |-> "snapshot", overallScore |-> r.overallScore, components |-> r.components,
   details |-> r.details, recommendations |-> r.recommendations, metadata |-> r.metadata]

StartCheck ==
  /\ pcC = "idle"
  /\ \E d \in RunDocs : docs' = d
  /\ platform' = None
  /\ pcC' = "signal"
  /\ UNCHANGED <<signalAlignment, feedbackResponsiveness, boundedIntegrity,
                 elasticTolerance, overallScore, coherenceReport, exitCode>>
  /\ UNCHANGED fileVars
  /\ UNCHANGED <<scoreVars, attrVars, resVars, repVars>>

CalcSignal ==
  /\ pcC = "signal"
  /\ \E a \in RunAssets : signalAlignment' = calculateSignalAlignment(docs, a)
  /\ pcC' = "feedback"
  /\ UNCHANGED <<docs, platform, feedbackResponsiveness, boundedIntegrity, elasticTolerance,
                 overallScore, coherenceReport, exitCode>>
  /\ UNCHANGED fileVars
  /\ UNCHANGED <<scoreVars, attrVars, resVars, repVars>>

CalcFeedback ==
  /\ pcC = "feedback"
  /\ \E q1 \in RunQuery, q2 \in RunQuery, q3 \in RunQuery, q4 \in RunLog :
       /\ platform' = [openIssues |-> q1, closedIssues |-> q2, pulls |-> q3, log |-> q4]
       /\ feedbackResponsiveness' = calculateFeedbackResponsiveness(q1, q2, q3, q4)
  /\ pcC' = "bounded"
  /\ UNCHANGED <<docs, signalAlignment, boundedIntegrity, elasticTolerance,
                 overallScore, coherenceReport, exitCode>>
  /\ UNCHANGED fileVars
  /\ UNCHANGED <<scoreVars, attrVars, resVars, repVars>>

CalcBounded ==
  /\ pcC = "bounded"
  /\ \E sc \in RunScope(docs), dr \in RunDrift(docs) :
       boundedIntegrity' = calculateBoundedIntegrity(sc, dr)
  /\ pcC' = "elastic"
  /\ UNCHANGED <<docs, platform, signalAlignment, feedbackResponsiveness, elasticTolerance,
                 overallScore, coherenceReport, exitCode>>
  /\ UNCHANGED fileVars
  /\ UNCHANGED <<scoreVars, attrVars, resVars, repVars>>

\* a declared scope term that is no regular expression (new RegExp throws at
\* line 896) or no string (toLowerCase throws at line 889): the rejection
\* reaches the catch of checkCoherence, lines 129-132
CalcBoundedThrows ==
  /\ pcC = "bounded"
  /\ docs # <<>>
  /\ pcC' = "exited"
  /\ exitCode' = 1
  /\ UNCHANGED <<docs, platform, signalAlignment, feedbackResponsiveness, boundedIntegrity,
                 elasticTolerance, overallScore, coherenceReport>>
  /\ UNCHANGED fileVars
  /\ UNCHANGED <<scoreVars, attrVars, resVars, repVars>>

\* lines 65-102: the last component, the combination and the report object
CalcOverall ==
  /\ pcC = "elastic"
  /\ LET ela == calculateElasticTolerance
         overall == calculateOverallCoherence(signalAlignment.score,
                      feedbackResponsiveness.score, boundedIntegrity.score, ela.score)
     IN /\ elasticTolerance' = ela
        /\ overallScore' = overall
        /\ coherenceReport' = BuildReport(signalAlignment, feedbackResponsiveness,
                                          boundedIntegrity, ela, overall)
  /\ pcC' = "save"
  /\ UNCHANGED <<docs, platform, signalAlignment, feedbackResponsiveness, boundedIntegrity,
                 exitCode>>
  /\ UNCHANGED fileVars
  /\ UNCHANGED <<scoreVars, attrVars, resVars, repVars>>

\* fs.writeFileSync(config.paths.coherenceOutput, ...), lines 104-108
SaveReport ==
  /\ pcC = "save"
  /\ coherenceFile' = StringifyReport(coherenceReport)
  /\ pcC' = "status"
  /\ UNCHANGED <<docs, platform, signalAlignment, feedbackResponsiveness, boundedIntegrity,
                 elasticTolerance, overallScore, coherenceReport, exitCode>>
  /\ UNCHANGED <<attributionFile, residueFile, historyFile, reportFile>>
  /\ UNCHANGED <<scoreVars, attrVars, resVars, repVars>>

ExitCheck ==
  /\ pcC = "status"
  /\ exitCode' = ExitStatus(overallScore)
  /\ pcC' = "exited"
  /\ UNCHANGED <<docs, platform, signalAlignment, feedbackResponsiveness, boundedIntegrity,
                 elasticTolerance, overallScore, coherenceReport>>
  /\ UNCHANGED fileVars
  /\ UNCHANGED <<scoreVars, attrVars, resVars, repVars>>

(***************************************************************************)
(* attribution-map.js.                                                      *)
(*                                                                         *)
(* A name or a path is the sequence of its pieces: a run of letters and     *)
(* digits, or one other character.  An event is one activity record of the  *)
(* repository or the platform: a commit's change of one file (ref = path),  *)
(* or an issue, pull request, comment or review (ref = its number).         *)
(***************************************************************************)
MaxEvents == 2

Alnum == {"a", "b", "c", "x", "y", "md", "issues", "pulls", "1"}
\* instants: of a commit, of a platform record, of a clock reading
Stamps == {1, 2}
\* commits by two author names (%an) on two paths; platform records of one
\* login on issue 1 and pull request 1
Event ==
  [kind : {"commit"}, actor : {<<"a", "-", "b">>, <<"a", "_", "b">>}, ts : Stamps,
   ref : {<<"x", "-", "y", ".", "md">>, <<"x", "_", "y", ".", "md">>}]
  \cup [kind : {"issue_open", "issue_comment", "pr_open", "pr_review", "pr_comment"},
        actor : {<<"c">>}, ts : {1}, ref : {"1"}]

Corrupt == [kind |-> "corrupt"]
\* a file that holds {}: it parses, to an object without any collection
EmptyObject == [kind |-> "object"]

\* name.replace(/[^a-zA-Z0-9]/g, '_')
Sanitize(name) == [i \in 1..Len(name) |-> IF name[i] \in Alnum THEN name[i] ELSE "_"]

\* `${type}:${sanitized name}`
nodeId(type, name) == <<type, Sanitize(name)>>

getFileType(path) ==
  LET ext == path[Len(path)]
  IN IF ext = "md" THEN "markdown" ELSE "other"

Exists(seq, Test(_)) == \E i \in 1..Len(seq) : Test(seq[i])

addContributorNode(graph, contributor) ==
  LET id == nodeId("contributor", contributor.name)
  IN IF ~Exists(graph.nodes, LAMBDA node : node.id = id)
     THEN [graph EXCEPT !.nodes = Append(@, [id |-> id, name |-> contributor.name,
                                             type |-> "contributor", contributions |-> 0])]
     ELSE graph

addContentNodeAlways(graph, content) ==
  [graph EXCEPT !.nodes = Append(@, [id |-> nodeId("content", content.path),
                                     path |-> content.path, type |-> content.type])]

addContentNode(graph, content) ==
  LET id == nodeId("content", content.path)
  IN IF ~Exists(graph.nodes, LAMBDA node : node.id = id)
     THEN [graph EXCEPT !.nodes = Append(@, [id |-> id, path |-> content.path,
                                             type |-> content.type])]
     ELSE graph

addLinkAlways(graph, link) == [graph EXCEPT !.links = Append(@, link)]

addLink(graph, link) ==
  IF ~Exists(graph.links, LAMBDA l : /\ l.source = link.source
                                     /\ l.target = link.target
                                     /\ l.type = link.type
                                     /\ l.timestamp = link.timestamp)
  THEN [graph EXCEPT !.links = Append(@, link)]
  ELSE graph

\* the content reference of an event: the file path, issues/<n> or pulls/<n>
ContentPath(e) ==
  CASE e.kind = "commit" -> e.ref
    [] e.kind \in {"issue_open", "issue_comment"} -> <<"issues", "/", e.ref>>
    [] OTHER -> <<"pulls", "/", e.ref>>

\* config.contributionTypes
LinkType(e) ==
  CASE e.kind = "commit" -> "code"
    [] e.kind = "issue_open" -> "issue"
    [] e.kind = "pr_open" -> "pull_request"
    [] e.kind = "pr_review" -> "review"
    [] OTHER -> "comment"

\* weights in tenths; a commit's weight is its changed-line count, here 1 line
LinkWeight(e) ==
  CASE e.kind \in {"commit", "issue_open", "pr_open"} -> 10
    [] e.kind = "pr_review" -> 8
    [] OTHER -> 5

ContentType(e) ==
  CASE e.kind = "commit" -> getFileType(e.ref)
    [] e.kind = "issue_open" -> "issue"
    [] OTHER -> "pull_request"

\* the link of a record added without the content node it points to
foldEventWithoutContent(graph, e) ==
  addLink(addContributorNode(graph, [name |-> e.actor]),
          [source |-> nodeId("contributor", e.actor),
           target |-> nodeId("content", ContentPath(e)),
           type |-> LinkType(e), weight |-> LinkWeight(e), timestamp |-> e.ts])

\* the body of the loops of mapCodeContributions, mapIssueContributions and
\* mapPRContributions for one record: the contributor node, for a commit, an
\* issue or a pull request the content node, then the link
foldEvent(graph, e) ==
  LET g1 == addContributorNode(graph, [name |-> e.actor])
      g2 == IF e.kind \in {"commit", "issue_open", "pr_open"}
            THEN addContentNode(g1, [path |-> ContentPath(e), type |-> ContentType(e)])
            ELSE g1
  IN addLink(g2, [source |-> nodeId("contributor", e.actor),
                  target |-> nodeId("content", ContentPath(e)),
                  type |-> LinkType(e), weight |-> LinkWeight(e), timestamp |-> e.ts])

RECURSIVE foldEvents(_, _)
foldEvents(graph, es) ==
  IF es = <<>> THEN graph ELSE foldEvents(foldEvent(graph, Head(es)), Tail(es))

RECURSIVE Flatten(_)
Flatten(ss) == IF ss = <<>> THEN <<>> ELSE Head(ss) \o Flatten(Tail(ss))

OfKind(es, kinds) == SelectSeq(es, LAMBDA e : e.kind \in kinds)

\* the order in which mapIssueContributions meets the records: each issue,
\* then its comments
IssuePhase(es) ==
  LET issues == OfKind(es, {"issue_open"})
  IN Flatten([j \in 1..Len(issues) |->
       <<issues[j]>> \o SelectSeq(es, LAMBDA e : e.kind = "issue_comment"
                                                 /\ e.ref = issues[j].ref)])

\* each pull request, then its reviews, then its comments
PRPhase(es) ==
  LET prs == OfKind(es, {"pr_open"})
  IN Flatten([j \in 1..Len(prs) |->
       <<prs[j]>>
       \o SelectSeq(es, LAMBDA e : e.kind = "pr_review" /\ e.ref = prs[j].ref)
       \o SelectSeq(es, LAMBDA e : e.kind = "pr_comment" /\ e.ref = prs[j].ref)])

\* how many records a phase has folded in when a fetch throws: none
\* (fetchAllIssues, fetchAllPullRequests), those up to an issue or pull request
\* (its comments or reviews could not be fetched), those up to the reviews of a
\* pull request (its comments could not be fetched); or all of them
FetchCuts(phase) ==
  {0, Len(phase)}
  \cup {p \in 1..Len(phase) : phase[p].kind \in {"issue_open", "pr_open"}}
  \cup {p \in 1..Len(phase) :
          /\ phase[p].kind \in {"pr_open", "pr_review"}
          /\ (p = Len(phase) \/ phase[p + 1].kind # "pr_review")}

CountLinks(links, Test(_)) == Cardinality({i \in 1..Len(links) : Test(links[i])})

NaN == [kind |-> "NaN"]
Infinity == [kind |-> "Infinity"]

\* links / (nodes * (nodes - 1) / 2) in hundredths; 0 / 0 is NaN
Density(graph) ==
  LET n == Len(graph.nodes)
      pairs2 == n * (n - 1)
  IN IF pairs2 = 0
     THEN (IF Len(graph.links) = 0 THEN NaN ELSE Infinity)
     ELSE [kind |-> "number", value |-> (Len(graph.links) * 2 * Scale) \div pairs2]

\* every contributor credited with all the links of the graph
calculateAttributionMetricsTotal(graph, now) ==
  LET update(node) ==
        IF node.type = "contributor"
        THEN [id |-> node.id, name |-> node.name, type |-> node.type,
              contributions |-> Len(graph.links),
              contributionBreakdown |->
                [t \in {graph.links[i].type : i \in 1..Len(graph.links)} |->
                   CountLinks(graph.links, LAMBDA link : link.type = t)]]
        ELSE node
  IN [nodes |-> [i \in 1..Len(graph.nodes) |-> update(graph.nodes[i])],
      links |-> graph.links,
      metadata |->
        [metrics |-> [contributorCount |->
                     Cardinality({i \in 1..Len(graph.nodes) :
                                    graph.nodes[i].type = "contributor"}),
                   totalContributions |-> Len(graph.links),
                   contentNodes |->
                     Cardinality({i \in 1..Len(graph.nodes) :
                                    graph.nodes[i].type # "contributor"}),
                   density |-> Density(graph),
                   lastUpdated |-> now]]]

calculateAttributionMetrics(graph, now) ==
  LET count(node) == CountLinks(graph.links, LAMBDA link : link.source = node.id)
      types(node) == {graph.links[i].type : i \in {j \in 1..Len(graph.links) :
                                                    graph.links[j].source = node.id}}
      breakdown(node) ==
        [t \in types(node) |->
           CountLinks(graph.links, LAMBDA link : link.source = node.id /\ link.type = t)]
      update(node) ==
        IF node.type = "contributor"
        THEN [id |-> node.id, name |-> node.name, type |-> node.type,
              contributions |-> count(node), contributionBreakdown |-> breakdown(node)]
        ELSE node
  IN [nodes |-> [i \in 1..Len(graph.nodes) |-> update(graph.nodes[i])],
      links |-> graph.links,
      metadata |->
        [metrics |-> [contributorCount |->
                     Cardinality({i \in 1..Len(graph.nodes) :
                                    graph.nodes[i].type = "contributor"}),
                   totalContributions |-> Len(graph.links),
                   contentNodes |->
                     Cardinality({i \in 1..Len(graph.nodes) :
                                    graph.nodes[i].type # "contributor"}),
                   density |-> Density(graph),
                   lastUpdated |-> now]]]

\* JSON.stringify writes a number that is not finite as null
StringifyNumber(x) == IF x \in {NaN, Infinity} THEN Null ELSE x

StringifyGraph(graph) ==
  [kind |-> "graph", nodes |-> graph.nodes, links |-> graph.links,
   metadata |-> IF graph.metadata.metrics = None THEN graph.metadata
                ELSE [graph.metadata EXCEPT !.metrics.density = StringifyNumber(@)]]

\* a new graph has no metadata.metrics
EmptyGraph == [nodes |-> <<>>, links |-> <<>>, metadata |-> [metrics |-> None]]

initializeAttributionGraphFresh(file) == EmptyGraph

\* the parsed file when it exists and parses, else a new graph
initializeAttributionGraph(file) ==
  IF file.kind = "graph"
  THEN [nodes |-> file.nodes, links |-> file.links, metadata |-> file.metadata]
  ELSE IF file = EmptyObject THEN EmptyObject
  ELSE EmptyGraph

\* the repository or the platform gains a record; a comment or a review
\* belongs to an issue or a pull request that exists, and a number names one
\* issue or one pull request
AddEvent ==
  /\ pcA = "idle"
  /\ Len(events) < MaxEvents
  /\ \E e \in Event :
       /\ e.kind \in {"issue_open", "pr_open"} =>
            ~Exists(events, LAMBDA o : o.kind = e.kind /\ o.ref = e.ref)
       /\ e.kind = "issue_comment" =>
            Exists(events, LAMBDA o : o.kind = "issue_open" /\ o.ref = e.ref)
       /\ e.kind \in {"pr_review", "pr_comment"} =>
            Exists(events, LAMBDA o : o.kind = "pr_open" /\ o.ref = e.ref)
       /\ events' = Append(events, e)
  /\ UNCHANGED <<pcA, attributionGraph, folded, prevFolded>>
  /\ UNCHANGED <<fileVars, scoreVars, checkVars, resVars, repVars>>

\* meta/attribution.json is left with text that JSON.parse rejects
CorruptAttribution ==
  /\ pcA = "idle"
  /\ attributionFile.kind = "graph"
  /\ attributionFile' = Corrupt
  /\ UNCHANGED <<coherenceFile, residueFile, historyFile, reportFile>>
  /\ UNCHANGED <<scoreVars, checkVars, attrVars, resVars, repVars>>

StartBuild ==
  /\ pcA = "idle"
  /\ attributionGraph' = initializeAttributionGraph(attributionFile)
  /\ folded' = <<>>
  /\ pcA' = "code"
  /\ UNCHANGED <<events, prevFolded>>
  /\ UNCHANGED <<fileVars, scoreVars, checkVars, resVars, repVars>>

\* mapCodeContributions: git log throws, or every commit is folded in.  On
\* an object without nodes the first addContributorNode throws (graph.nodes is
\* undefined) into the catch of the function, here and in the two functions
\* that follow: nothing is folded in
MapCode ==
  /\ pcA = "code"
  /\ \E ok \in BOOLEAN :
       LET delivered == IF ok /\ attributionGraph # EmptyObject
                        THEN OfKind(events, {"commit"}) ELSE <<>>
       IN /\ attributionGraph' = foldEvents(attributionGraph, delivered)
          /\ folded' = folded \o delivered
  /\ pcA' = "issues"
  /\ UNCHANGED <<events, prevFolded>>
  /\ UNCHANGED <<fileVars, scoreVars, checkVars, resVars, repVars>>

MapIssues ==
  /\ pcA = "issues"
  /\ \E p \in FetchCuts(IssuePhase(events)) :
       LET delivered == IF attributionGraph # EmptyObject
                        THEN SubSeq(IssuePhase(events), 1, p) ELSE <<>>
       IN /\ attributionGraph' = foldEvents(attributionGraph, delivered)
          /\ folded' = folded \o delivered
  /\ pcA' = "pulls"
  /\ UNCHANGED <<events, prevFolded>>
  /\ UNCHANGED <<fileVars, scoreVars, checkVars, resVars, repVars>>

MapPRs ==
  /\ pcA = "pulls"
  /\ \E p \in FetchCuts(PRPhase(events)) :
       LET delivered == IF attributionGraph # EmptyObject
                        THEN SubSeq(PRPhase(events), 1, p) ELSE <<>>
       IN /\ attributionGraph' = foldEvents(attributionGraph, delivered)
          /\ folded' = folded \o delivered
  /\ pcA' = "metrics"
  /\ UNCHANGED <<events, prevFolded>>
  /\ UNCHANGED <<fileVars, scoreVars, checkVars, resVars, repVars>>

\* mapDiscussionContributions (a placeholder that adds nothing), then
\* calculateAttributionMetrics
Metrics ==
  /\ pcA = "metrics"
  /\ attributionGraph # EmptyObject
  /\ \E now \in Stamps :
       attributionGraph' = calculateAttributionMetrics(attributionGraph, now)
  /\ pcA' = "save"
  /\ UNCHANGED <<events, folded, prevFolded>>
  /\ UNCHANGED <<fileVars, scoreVars, checkVars, resVars, repVars>>

\* calculateAttributionMetrics on an object without nodes: graph.nodes.filter
\* throws into the catch of generateAttributionMap, which ends the process
\* with status 1 before anything is written
MetricsThrows ==
  /\ pcA = "metrics"
  /\ attributionGraph = EmptyObject
  /\ pcA' = "failed"
  /\ UNCHANGED <<events, attributionGraph, folded, prevFolded>>
  /\ UNCHANGED <<fileVars, scoreVars, checkVars, resVars, repVars>>

\* the author follows the setup guide and creates the placeholder file
\* meta/attribution.json
PlaceholderAttribution ==
  /\ pcA = "idle"
  /\ attributionFile = Absent
  /\ attributionFile' = EmptyObject
  /\ UNCHANGED <<coherenceFile, residueFile, historyFile, reportFile>>
  /\ UNCHANGED <<scoreVars, checkVars, attrVars, resVars, repVars>>

\* fs.writeFileSync(config.paths.attributionOutput, ...); the script ends
SaveGraph ==
  /\ pcA = "save"
  /\ attributionFile' = StringifyGraph(attributionGraph)
  /\ prevFolded' = folded
  /\ pcA' = "idle"
  /\ attributionGraph' = None
  /\ folded' = <<>>
  /\ UNCHANGED events
  /\ UNCHANGED <<coherenceFile, residueFile, historyFile, reportFile>>
  /\ UNCHANGED <<scoreVars, checkVars, resVars, repVars>>

(***************************************************************************)
(* residue-analysis.js.                                                     *)
(*                                                                         *)
(* A text is the sequence of its words; "mark" is the residue marker.  The  *)
(* sources of a run are one content file f.md (the residue items of its     *)
(* front matter and its markdown body), the residue issues and the comments *)
(* of one pull request.                                                    *)
(***************************************************************************)
MaxSources == 2

Tokens == {"unclear", "source", "mark"}
FileName == <<"f.md">>
\* a field that is missing or empty is <<>>
DeclaredItems == {[description |-> <<>>, section |-> <<>>],
                  [description |-> <<"unclear">>, section |-> <<>>],
                  [description |-> <<"unclear">>, section |-> <<"intro">>]}
ResidueIssues == {[title |-> <<"unclear">>, description |-> <<>>, section |-> FileName],
                  [title |-> <<"source">>, description |-> <<"unclear">>, section |-> <<>>]}
PRComments == {<<"mark", "unclear">>, <<"symbolic residue", "unclear">>, <<"unclear">>}
NoSources == [declared |-> <<>>, body |-> <<>>, issues |-> <<>>, comments |-> <<>>]

\* config.residueTypes in the order detectResidueType scores them, with the
\* keywords of each type that the texts can hold
ResidueTypes == <<"Attribution Void", "Token Hesitation", "Recursive Collapse",
                  "Boundary Erosion", "Phase Misalignment">>
Keywords(type) ==
  CASE type = "Attribution Void" -> {"source", "citation"}
    [] type = "Token Hesitation" -> {"unclear", "vague"}
    [] type = "Recursive Collapse" -> {"loop"}
    [] type = "Boundary Erosion" -> {"scope"}
    [] OTHER -> {"conflict"}

WordsOf(text) == {text[i] : i \in 1..Len(text)}

\* the last type among those with the highest score
RECURSIVE maxTypeLast(_, _, _, _)
maxTypeLast(text, k, best, bestScore) ==
  IF k > Len(ResidueTypes) THEN best
  ELSE LET score == Cardinality(Keywords(ResidueTypes[k]) \cap WordsOf(text))
       IN IF score >= bestScore /\ score > 0
          THEN maxTypeLast(text, k + 1, ResidueTypes[k], score)
          ELSE maxTypeLast(text, k + 1, best, bestScore)

RECURSIVE maxType(_, _, _, _)
maxType(text, k, best, bestScore) ==
  IF k > Len(ResidueTypes) THEN best
  ELSE LET score == Cardinality(Keywords(ResidueTypes[k]) \cap WordsOf(text))
       IN IF score > bestScore
          THEN maxType(text, k + 1, ResidueTypes[k], score)
          ELSE maxType(text, k + 1, best, bestScore)

detectResidueType(description) == maxType(description, 1, "Token Hesitation", 0)

detectRecursiveDepth(description) ==
  IF WordsOf(description)
       \cap {"deep", "profound", "fundamental", "ontological", "conceptual"} # {}
  THEN "Deep (conceptual/ontological)"
  ELSE IF WordsOf(description)
            \cap {"explain", "explanation", "theory", "understand", "concept", "framework"}
            # {}
  THEN "Intermediate (explanatory)"
  ELSE "Surface (linguistic/presentational)"

\* the place of the first "mark" of text at or after i, or 0
NextMark(text, i) ==
  IF \E j \in i..Len(text) : text[j] = "mark"
  THEN CHOOSE j \in i..Len(text) : text[j] = "mark" /\ \A k \in i..(j - 1) : text[k] # "mark"
  ELSE 0

\* markdown.match(/mark\s*([\s\S]*?)(?:mark|$)/g), each match with its marks
\* removed: from a mark to the next mark, which the match consumes, or to the end
RECURSIVE InlineDescriptions(_, _)
InlineDescriptions(text, i) ==
  LET open == NextMark(text, i)
      close == IF open = 0 THEN 0 ELSE NextMark(text, open + 1)
  IN IF open = 0 THEN <<>>
     ELSE IF close = 0 THEN <<SubSeq(text, open + 1, Len(text))>>
     ELSE <<SubSeq(text, open + 1, close - 1)>> \o InlineDescriptions(text, close + 1)

\* the matches of the pattern 'Explicit uncertainty'; the texts hold no match
\* of the other four patterns
detectPotentialResidue(text) ==
  LET hits == SelectSeq(text, LAMBDA w : w = "unclear")
  IN [i \in 1..Len(hits) |-> [text |-> <<hits[i]>>, pattern |-> "Explicit uncertainty",
                              type |-> "Token Hesitation"]]

\* value || default
Or(value, default) == IF value = <<>> THEN default ELSE value

\* the three kinds of instance analyzeContentResidue builds for one file; an
\* id is its fixed prefix (the clock and random part is left out)
DeclaredInstance(item) ==
  [id |-> "residue-content", classification |-> "Unclassified",
   description |-> Or(item.description, <<"Author-identified residue">>),
   section |-> Or(item.section, FileName),
   recursiveDepth |-> "Unknown", valence |-> "Neutral (neither helps nor hinders)",
   reporter |-> "author", source |-> "content", status |-> "active"]

InlineInstance(description) ==
  [id |-> "residue-inline", classification |-> detectResidueType(description),
   description |-> description, section |-> FileName,
   recursiveDepth |-> detectRecursiveDepth(description),
   valence |-> "Positive (reveals important boundary)", reporter |-> "author",
   source |-> "inline", status |-> "active"]

DetectedInstance(residue) ==
  [id |-> "residue-detected", classification |-> residue.type,
   description |-> residue.text, section |-> FileName,
   recursiveDepth |-> "Surface (linguistic/presentational)",
   valence |-> "Neutral (neither helps nor hinders)", reporter |-> "system",
   source |-> "detection", status |-> "pending"]

parseResidueFromIssue(issue) ==
  [id |-> "residue-issue", classification |-> "Unclassified",
   description |-> Or(issue.description, issue.title), section |-> issue.section,
   recursiveDepth |-> "Unknown", valence |-> "Neutral (neither helps nor hinders)",
   reporter |-> "user", source |-> "issue", status |-> "active"]

\* comments are kept when they hold the marker or one of two phrases; the
\* description is the text after the first mark up to the next, or the comment
IsResidueComment(body) == WordsOf(body) \cap {"mark", "symbolic residue", "residue detection"} # {}

CommentInstance(body) ==
  LET marked == InlineDescriptions(body, 1)
      description == IF marked # <<>> THEN marked[1] ELSE body
  IN [id |-> "residue-pr", classification |-> detectResidueType(description),
      description |-> description, section |-> <<"Pull Request #1">>,
      recursiveDepth |-> detectRecursiveDepth(description),
      valence |-> "Neutral (neither helps nor hinders)", reporter |-> "user",
      source |-> "pr_comment", status |-> "active"]

addResidueInstanceAlways(catalog, instance) ==
  [catalog EXCEPT !.instances = Append(@, instance)]

addResidueInstance(catalog, instance) ==
  LET exists == Exists(catalog.instances,
                       LAMBDA existing : /\ existing.description = instance.description
                                         /\ existing.section = instance.section)
  IN IF ~exists THEN [catalog EXCEPT !.instances = Append(@, instance)] ELSE catalog

RECURSIVE addAll(_, _)
addAll(catalog, instances) ==
  IF instances = <<>> THEN catalog
  ELSE addAll(addResidueInstance(catalog, Head(instances)), Tail(instances))

MapSeq(seq, F(_)) == [i \in 1..Len(seq) |-> F(seq[i])]

\* the instances analyzeContentResidue offers for f.md, in its order
ContentInstances(src) ==
  MapSeq(src.declared, DeclaredInstance)
  \o MapSeq(InlineDescriptions(src.body, 1), InlineInstance)
  \o MapSeq(detectPotentialResidue(src.body), DetectedInstance)

IssueInstances(src) == MapSeq(src.issues, parseResidueFromIssue)

PRInstances(src) == MapSeq(SelectSeq(src.comments, IsResidueComment), CommentInstance)

CountInstances(instances, Test(_)) ==
  Cardinality({i \in 1..Len(instances) : Test(instances[i])})

\* the classification with the highest count, the earliest met among equals
dominantClassification(instances) ==
  IF instances = <<>> THEN "None"
  ELSE LET count(c) == CountInstances(instances, LAMBDA x : x.classification = c)
           first(c) == CHOOSE i \in 1..Len(instances) :
                         /\ instances[i].classification = c
                         /\ \A j \in 1..(i - 1) : instances[j].classification # c
           classes == {instances[i].classification : i \in 1..Len(instances)}
       IN CHOOSE c \in classes :
            \A d \in classes \ {c} :
              count(c) > count(d) \/ (count(c) = count(d) /\ first(c) < first(d))

calculateResidueMetrics(catalog) ==
  [catalog EXCEPT !.meta =
     [count |-> Len(catalog.instances),
      metrics |->
        [byStatus |->
           [active |-> CountInstances(catalog.instances, LAMBDA x : x.status = "active"),
            resolved |-> CountInstances(catalog.instances, LAMBDA x : x.status = "resolved"),
            pending |-> CountInstances(catalog.instances, LAMBDA x : x.status = "pending")],
         dominantClassification |-> dominantClassification(catalog.instances)]]]

StringifyCatalog(catalog) ==
  [kind |-> "catalog", instances |-> catalog.instances, meta |-> catalog.meta]

EmptyCatalog == [instances |-> <<>>, meta |-> [count |-> 0, metrics |-> None]]

initializeResidueCatalogFresh(file) == EmptyCatalog

\* the parsed file when it exists and parses, else a new catalog
initializeResidueCatalog(file) ==
  IF file.kind = "catalog"
  THEN [instances |-> file.instances, meta |-> file.meta]
  ELSE IF file = EmptyObject THEN EmptyObject
  ELSE EmptyCatalog

Keys(instances) == [i \in 1..Len(instances) |->
                      <<instances[i].description, instances[i].section>>]

\* an author, a reporter or a reviewer adds a residue item to the front
\* matter, a word to the body, a residue issue, or a comment to the pull request
AddSource ==
  /\ pcR = "idle"
  /\ Len(sources.declared) + Len(sources.body) + Len(sources.issues)
       + Len(sources.comments) < MaxSources
  /\ \/ \E item \in DeclaredItems : sources' = [sources EXCEPT !.declared = Append(@, item)]
     \/ \E w \in Tokens : sources' = [sources EXCEPT !.body = Append(@, w)]
     \/ \E issue \in ResidueIssues :
          /\ ~Exists(sources.issues, LAMBDA o : o = issue)
          /\ sources' = [sources EXCEPT !.issues = Append(@, issue)]
     \/ \E body \in PRComments : sources' = [sources EXCEPT !.comments = Append(@, body)]
  /\ UNCHANGED <<pcR, residueCatalog, found, prevFound>>
  /\ UNCHANGED <<fileVars, scoreVars, checkVars, attrVars, repVars>>

\* the external reviewer action: an active instance of the persisted catalog
\* becomes resolved
ResolveInstance ==
  /\ pcR = "idle"
  /\ residueFile.kind = "catalog"
  /\ \E i \in 1..Len(residueFile.instances) :
       /\ residueFile.instances[i].status = "active"
       /\ residueFile' = [residueFile EXCEPT !.instances[i].status = "resolved"]
  /\ UNCHANGED <<coherenceFile, attributionFile, historyFile, reportFile>>
  /\ UNCHANGED <<scoreVars, checkVars, attrVars, resVars, repVars>>

\* meta/residue.json is left with text that JSON.parse rejects
CorruptResidue ==
  /\ pcR = "idle"
  /\ residueFile.kind = "catalog"
  /\ residueFile' = Corrupt
  /\ UNCHANGED <<coherenceFile, attributionFile, historyFile, reportFile>>
  /\ UNCHANGED <<scoreVars, checkVars, attrVars, resVars, repVars>>

StartResidue ==
  /\ pcR = "idle"
  /\ residueCatalog' = initializeResidueCatalog(residueFile)
  /\ found' = <<>>
  /\ pcR' = "content"
  /\ UNCHANGED <<sources, prevFound>>
  /\ UNCHANGED <<fileVars, scoreVars, checkVars, attrVars, repVars>>

\* analyzeContentResidue: f.md is read and parsed, or that throws and the
\* file is skipped.  On an object without instances addResidueInstance throws
\* (catalog.instances is undefined) into the catch of the function, here and
\* in the two functions that follow: nothing is added
ContentResidue ==
  /\ pcR = "content"
  /\ \E ok \in BOOLEAN :
       LET offered == IF ok /\ residueCatalog # EmptyObject
                      THEN ContentInstances(sources) ELSE <<>>
       IN /\ residueCatalog' = addAll(residueCatalog, offered)
          /\ found' = found \o Keys(offered)
  /\ pcR' = "issues"
  /\ UNCHANGED <<sources, prevFound>>
  /\ UNCHANGED <<fileVars, scoreVars, checkVars, attrVars, repVars>>

\* analyzeIssueResidue: fetchResidueIssues returns the issues, or [] when the
\* request fails
IssueResidue ==
  /\ pcR = "issues"
  /\ \E ok \in BOOLEAN :
       LET offered == IF ok /\ residueCatalog # EmptyObject
                      THEN IssueInstances(sources) ELSE <<>>
       IN /\ residueCatalog' = addAll(residueCatalog, offered)
          /\ found' = found \o Keys(offered)
  /\ pcR' = "pulls"
  /\ UNCHANGED <<sources, prevFound>>
  /\ UNCHANGED <<fileVars, scoreVars, checkVars, attrVars, repVars>>

\* analyzePRResidue: fetchAllPullRequests or fetchPRComments returns [] when
\* the request fails
PRResidue ==
  /\ pcR = "pulls"
  /\ \E ok \in BOOLEAN :
       LET offered == IF ok /\ residueCatalog # EmptyObject
                      THEN PRInstances(sources) ELSE <<>>
       IN /\ residueCatalog' = addAll(residueCatalog, offered)
          /\ found' = found \o Keys(offered)
  /\ pcR' = "metrics"
  /\ UNCHANGED <<sources, prevFound>>
  /\ UNCHANGED <<fileVars, scoreVars, checkVars, attrVars, repVars>>

ResidueMetrics ==
  /\ pcR = "metrics"
  /\ residueCatalog # EmptyObject
  /\ residueCatalog' = calculateResidueMetrics(residueCatalog)
  /\ pcR' = "save"
  /\ UNCHANGED <<sources, found, prevFound>>
  /\ UNCHANGED <<fileVars, scoreVars, checkVars, attrVars, repVars>>

\* calculateResidueMetrics on an object without instances: the loop over
\* catalog.instances throws into the catch of analyzeResidue, which ends the
\* process with status 1 before anything is written
ResidueMetricsThrows ==
  /\ pcR = "metrics"
  /\ residueCatalog = EmptyObject
  /\ pcR' = "failed"
  /\ UNCHANGED <<sources, residueCatalog, found, prevFound>>
  /\ UNCHANGED <<fileVars, scoreVars, checkVars, attrVars, repVars>>

\* the author follows the setup guide and creates the placeholder file
\* meta/residue.json
PlaceholderResidue ==
  /\ pcR = "idle"
  /\ residueFile = Absent
  /\ residueFile' = EmptyObject
  /\ UNCHANGED <<coherenceFile, attributionFile, historyFile, reportFile>>
  /\ UNCHANGED <<scoreVars, checkVars, attrVars, resVars, repVars>>

\* fs.writeFileSync(config.paths.residueOutput, ...); the script ends
SaveCatalog ==
  /\ pcR = "save"
  /\ residueFile' = StringifyCatalog(residueCatalog)
  /\ prevFound' = found
  /\ pcR' = "idle"
  /\ residueCatalog' = None
  /\ found' = <<>>
  /\ UNCHANGED sources
  /\ UNCHANGED <<coherenceFile, attributionFile, historyFile, reportFile>>
  /\ UNCHANGED <<scoreVars, checkVars, attrVars, repVars>>

(***************************************************************************)
(* coherence-report.js: runs of generateCoherenceReport.  The function has  *)
(* no await, so a run goes from its start to its process.exit without       *)
(* yielding; the clock readings of one run are one instant.                 *)
(***************************************************************************)
MaxEntries == 3
MaxTime == 2

\* what a completed run of coherence-check.js leaves in meta/coherence.json:
\* an empty content directory, every platform query failing, and the assets
CheckOutcome(d, a, q, sc, dr) ==
  LET sig == calculateSignalAlignment(d, a)
      fb == calculateFeedbackResponsiveness(q, q, q, q)
      bnd == calculateBoundedIntegrity(sc, dr)
      ela == calculateElasticTolerance
      overall == calculateOverallCoherence(sig.score, fb.score, bnd.score, ela.score)
  IN StringifyReport(BuildReport(sig, fb, bnd, ela, overall))

Snapshots ==
  {CheckOutcome(<<>>, a, [ok |-> FALSE, n |-> 0, k |-> 0], [declared |-> FALSE, n |-> 0, k |-> 0],
                [articles |-> 0, sections |-> 0, cohesive |-> 0]) : a \in RunAssets}

\* an async function that was called and not awaited
Pending == [kind |-> "promise"]

Ascending(entries) ==
  \A i \in 1..(Len(entries) - 1) : entries[i].timestamp <= entries[i + 1].timestamp

EmptyHistory == [entries |-> <<>>, metadata |-> [lastUpdated |-> 0, entryCount |-> 0]]

\* a history that is not empty when the file gave none
loadCoherenceHistorySeeded(file) ==
  IF file.kind = "history"
  THEN [entries |-> file.entries, metadata |-> file.metadata]
  ELSE [entries |-> <<[timestamp |-> 0, overallScore |-> 0]>>,
        metadata |-> [lastUpdated |-> 0, entryCount |-> 1]]

\* the parsed file when it exists and parses, else a new history
loadCoherenceHistory(file) ==
  IF file.kind = "history"
  THEN [entries |-> file.entries, metadata |-> file.metadata]
  ELSE EmptyHistory

getCurrentCoherence(file, now) ==
  [timestamp |-> now, overallScore |-> file.overallScore, components |-> file.components,
   details |-> file.details, metadata |-> file.metadata]

\* Array.prototype.sort with (a, b) => a.timestamp - b.timestamp: stable
RECURSIVE InsertEntry(_, _)
InsertEntry(sorted, entry) ==
  IF sorted = <<>> THEN <<entry>>
  ELSE IF sorted[Len(sorted)].timestamp <= entry.timestamp THEN Append(sorted, entry)
  ELSE Append(InsertEntry(SubSeq(sorted, 1, Len(sorted) - 1), entry), sorted[Len(sorted)])

RECURSIVE SortEntries(_)
SortEntries(entries) ==
  IF entries = <<>> THEN <<>>
  ELSE InsertEntry(SortEntries(SubSeq(entries, 1, Len(entries) - 1)), entries[Len(entries)])

addToCoherenceHistoryUnsorted(history, current, now) ==
  [entries |-> Append(history.entries, current),
   metadata |-> [lastUpdated |-> now, entryCount |-> Len(history.entries) + 1]]

addToCoherenceHistory(history, current, now) ==
  LET pushed == Append(history.entries, current)
  IN [entries |-> SortEntries(pushed),
      metadata |-> [lastUpdated |-> now, entryCount |-> Len(pushed)]]

\* the call of line 2400: generatePeriodReport runs up to its first await and
\* hands back its promise; a throw before that await rejects the promise
generatePeriodReport(history) == Pending

StringifyHistory(history) ==
  [kind |-> "history", entries |-> history.entries, metadata |-> history.metadata]

\* JSON.stringify of what line 2400 stored in report; a promise is an object
\* with no own enumerable property
StringifyPeriodReport(r) == IF r = Pending THEN [kind |-> "object", keys |-> {}] ELSE r

\* coherence-check.js ran and saved its snapshot
CheckRuns ==
  /\ pcT = "idle"
  /\ \E snapshot \in Snapshots : coherenceFile' = snapshot
  /\ UNCHANGED <<attributionFile, residueFile, historyFile, reportFile>>
  /\ UNCHANGED <<scoreVars, checkVars, attrVars, resVars, repVars>>

\* meta/coherence-history.json is left with text that JSON.parse rejects
CorruptHistory ==
  /\ pcT = "idle"
  /\ historyFile.kind = "history"
  /\ historyFile' = Corrupt
  /\ UNCHANGED <<coherenceFile, attributionFile, residueFile, reportFile>>
  /\ UNCHANGED <<scoreVars, checkVars, attrVars, resVars, repVars>>

\* lines 2391-2394: loadCoherenceHistory, then getCurrentCoherence
LoadHistory ==
  /\ pcT = "idle"
  /\ coherenceFile.kind = "snapshot"
  /\ Len(loadCoherenceHistory(historyFile).entries) < MaxEntries
  /\ coherenceHistory' = loadCoherenceHistory(historyFile)
  /\ \E now \in 1..MaxTime : currentCoherence' = getCurrentCoherence(coherenceFile, now)
  /\ report' = Null
  /\ exitT' = NoExit
  /\ pcT' = "append"
  /\ UNCHANGED fileVars
  /\ UNCHANGED <<scoreVars, checkVars, attrVars, resVars>>

\* getCurrentCoherence throws: meta/coherence.json does not exist
LoadFails ==
  /\ pcT = "idle"
  /\ coherenceFile.kind # "snapshot"
  /\ coherenceHistory' = loadCoherenceHistory(historyFile)
  /\ exitT' = 1
  /\ UNCHANGED <<pcT, currentCoherence, report>>
  /\ UNCHANGED fileVars
  /\ UNCHANGED <<scoreVars, checkVars, attrVars, resVars>>

AppendEntry ==
  /\ pcT = "append"
  /\ coherenceHistory' = addToCoherenceHistory(coherenceHistory, currentCoherence,
                                                currentCoherence.timestamp)
  /\ pcT' = "report"
  /\ UNCHANGED <<currentCoherence, report, exitT>>
  /\ UNCHANGED fileVars
  /\ UNCHANGED <<scoreVars, checkVars, attrVars, resVars>>

CallPeriodReport ==
  /\ pcT = "report"
  /\ report' = generatePeriodReport(coherenceHistory)
  /\ pcT' = "history"
  /\ UNCHANGED <<coherenceHistory, currentCoherence, exitT>>
  /\ UNCHANGED fileVars
  /\ UNCHANGED <<scoreVars, checkVars, attrVars, resVars>>

\* lines 2403-2406
WriteHistory ==
  /\ pcT = "history"
  /\ historyFile' = StringifyHistory(coherenceHistory)
  /\ pcT' = "file"
  /\ UNCHANGED <<coherenceHistory, currentCoherence, report, exitT>>
  /\ UNCHANGED <<coherenceFile, attributionFile, residueFile, reportFile>>
  /\ UNCHANGED <<scoreVars, checkVars, attrVars, resVars>>

\* lines 2408-2411
WriteReport ==
  /\ pcT = "file"
  /\ reportFile' = StringifyPeriodReport(report)
  /\ pcT' = "log"
  /\ UNCHANGED <<coherenceHistory, currentCoherence, report, exitT>>
  /\ UNCHANGED <<coherenceFile, attributionFile, residueFile, historyFile>>
  /\ UNCHANGED <<scoreVars, checkVars, attrVars, resVars>>

\* line 2414 reads report.overall.current: report is a promise, its overall
\* is undefined, the TypeError reaches the catch and process.exit(1) ends the
\* process with the promise still pending
LogThrows ==
  /\ pcT = "log"
  /\ report = Pending
  /\ exitT' = 1
  /\ pcT' = "idle"
  /\ UNCHANGED <<coherenceHistory, currentCoherence, report>>
  /\ UNCHANGED fileVars
  /\ UNCHANGED <<scoreVars, checkVars, attrVars, resVars>>

(***************************************************************************)
(* generatePeriodReport run to completion: what its promise resolves to.    *)
(* Timestamps are in days here, so that the report period is 7 units; the   *)
(* clock readings lie on both sides of a period start.                      *)
(***************************************************************************)
ReportPeriodDays == 7

Clock == {1, 2, 9, 10}

\* history is the history after addToCoherenceHistory; around is what lines
\* 2526-2563 read outside the history: the repository activity since the
\* period start and the summaries of attribution.json and residue.json
awaitPeriodReport(history, now, around) ==
  LET periodStart == now - ReportPeriodDays
      Num(x) == [kind |-> "number", value |-> x]
      periodEntries == SelectSeq(history.entries, LAMBDA entry : entry.timestamp >= periodStart)
      previousEntries == SelectSeq(history.entries, LAMBDA entry : entry.timestamp < periodStart)
      previousEntry == IF Len(previousEntries) > 0
                       THEN previousEntries[Len(previousEntries)] ELSE Null
      currentEntry == history.entries[Len(history.entries)]
      defaultRecommendations ==
        [signalAlignment |-> <<"Add more citations to support claims",
                               "Include evidence for empirical statements",
                               "Link assertions to data or references",
                               "Clarify which parts are speculation vs. established fact">>,
         feedbackResponsiveness |-> <<"Address open issues more promptly",
                                      "Incorporate reviewer feedback more thoroughly",
                                      "Document changes made in response to feedback",
                                      "Implement suggestions from past reviews">>,
         boundedIntegrity |-> <<"More clearly define scope boundaries",
                                "Reduce topic drift in later sections",
                                "Ensure consistent terminology throughout",
                                "Clarify what is in-scope vs. out-of-scope">>,
         elasticTolerance |-> <<"Better acknowledge contradictory evidence",
                                "Include multiple perspectives on complex topics",
                                "More explicitly acknowledge limitations",
                                "Represent uncertainty more clearly">>]
      generateComponentRecommendations(component, value) ==
        SubSeq(defaultRecommendations[component], 1,
               IF value < 70 THEN 4 ELSE IF value < 85 THEN 2 ELSE 1)
      componentMetrics ==
        [component \in DOMAIN currentEntry.components |->
           LET value == currentEntry.components[component]
           IN [current |-> value,
               previous |-> IF previousEntry # Null
                            THEN Num(previousEntry.components[component]) ELSE Null,
               change |-> IF previousEntry # Null
                          THEN Num(value - previousEntry.components[component]) ELSE Null,
               details |-> currentEntry.details[component],
               recommendations |-> generateComponentRecommendations(component, value)]]
      order == <<"signalAlignment", "feedbackResponsiveness", "boundedIntegrity",
                 "elasticTolerance">>
      improve(component) ==
        IF componentMetrics[component].current < 70
        THEN <<[improve |-> component, value |-> componentMetrics[component].current,
                by |-> componentMetrics[component].recommendations[1]]>>
        ELSE <<>>
      advice ==
        improve(order[1]) \o improve(order[2]) \o improve(order[3]) \o improve(order[4])
        \o (IF around.activity.commitCount = 0
            THEN <<[text |-> "Increase development activity with regular commits to improve content and address issues"]>>
            ELSE <<>>)
        \o (IF around.activity.closedIssues = 0 /\ around.activity.openIssues > 0
            THEN <<[text |-> "Address open issues to improve feedback responsiveness"]>>
            ELSE <<>>)
        \o (IF around.residue.active > 10 /\ around.residue.resolved = 0
            THEN <<[text |-> "Address accumulated symbolic residue to improve conceptual clarity"]>>
            ELSE <<>>)
      overallPrevious == IF previousEntry # Null THEN Num(previousEntry.overallScore) ELSE Null
  IN [period |-> [start |-> periodStart, end |-> now, days |-> ReportPeriodDays],
      overall |-> [current |-> currentEntry.overallScore,
                   previous |-> overallPrevious,
                   change |-> IF overallPrevious # Null
                              THEN Num(currentEntry.overallScore - overallPrevious.value)
                              ELSE Null],
      components |-> componentMetrics,
      commits |-> around.activity.commitCount,
      issuesAddressed |-> around.activity.closedIssues,
      openIssues |-> around.activity.openIssues,
      attribution |-> around.attribution,
      residue |-> around.residue,
      recommendations |->
        IF advice = <<>>
        THEN <<[text |-> "Maintain current coherence practices and continue regular improvements"]>>
        ELSE advice,
      metadata |-> [generated |-> now, coherenceEntries |-> Len(periodEntries)]]

\* a history some earlier runs wrote, the snapshot of this run, the clock, and
\* the surroundings: every call failing and no summary file, or an active
\* repository
PeriodProbes ==
  LET Entry == {getCurrentCoherence(snapshot, t) : snapshot \in Snapshots, t \in Clock}
      Quiet == [activity |-> [commitCount |-> 0, closedIssues |-> 0, openIssues |-> 0],
                attribution |-> [activeContributors |-> 0, newContributors |-> 0,
                                 density |-> 0],
                residue |-> [new |-> 0, resolved |-> 0, active |-> 0, dominantType |-> "None"]]
      Active == [activity |-> [commitCount |-> 1, closedIssues |-> 0, openIssues |-> 1],
                 attribution |-> [activeContributors |-> 1, newContributors |-> 1,
                                  density |-> 50],
                 residue |-> [new |-> 1, resolved |-> 0, active |-> 11,
                              dominantType |-> "Token Hesitation"]]
  IN {[kind |-> "period",
       history |-> [entries |-> es, metadata |-> [lastUpdated |-> 0, entryCount |-> Len(es)]],
       current |-> snapshot, now |-> now, around |-> around] :
        es \in {e \in SeqsUpTo(Entry, MaxEntries - 1) : Ascending(e)},
        snapshot \in Snapshots, now \in Clock, around \in {Quiet, Active}}

\* lines 2394-2400 with the promise of line 2400 awaited
ApplyPeriod ==
  /\ probe # None
  /\ report = Null
  /\ currentCoherence' = getCurrentCoherence(probe.current, probe.now)
  /\ coherenceHistory' = addToCoherenceHistory(probe.history, currentCoherence', probe.now)
  /\ report' = awaitPeriodReport(coherenceHistory', probe.now, probe.around)
  /\ UNCHANGED <<pcT, exitT>>
  /\ UNCHANGED <<probe, scored, fetch, workflow, fileVars, checkVars, attrVars, resVars>>

(***************************************************************************)
(* The retrieval of a collection of the platform.  The objects of the       *)
(* collection are numbered 1..objects; a response holds the next PerPage of *)
(* them at most, so what a fetcher holds is a prefix, kept as its length.   *)
(***************************************************************************)
PerPage == 100
MaxObjects == 101

\* the fetchers of attribution-map.js and of residue-analysis.js
FetchProbes ==
  [kind : {"fetch"},
   fetcher : {"fetchAllIssues", "fetchIssueComments", "fetchAllPullRequests",
              "fetchPRReviews", "fetchPRComments", "fetchResidueIssues",
              "residue fetchAllPullRequests", "residue fetchPRComments"},
   objects : 0..MaxObjects]

\* the fetchers that pass a page number and loop while (hasMore)
Paginated == {"fetchAllIssues", "fetchAllPullRequests"}

\* response.data.length for page p of a collection of n objects
PageOf(n, p) == Min(PerPage, Max(0, n - PerPage * (p - 1)))

\* const issues = []; let page = 1; let hasMore = true
StartFetch ==
  /\ probe # None
  /\ fetch = None
  /\ fetch' = [page |-> 1, hasMore |-> TRUE, items |-> 0, responses |-> <<>>]
  /\ UNCHANGED <<probe, scored, workflow, fileVars, checkVars, attrVars, resVars, repVars>>

\* one turn of the while loop of lines 1650-1665 and 1688-1703
RequestPage ==
  /\ fetch # None
  /\ probe.fetcher \in Paginated
  /\ fetch.hasMore
  /\ LET data == PageOf(probe.objects, fetch.page)
     IN fetch' = IF data > 0
                 THEN [fetch EXCEPT !.items = @ + data, !.page = @ + 1,
                                    !.responses = Append(@, data)]
                 ELSE [fetch EXCEPT !.hasMore = FALSE, !.responses = Append(@, data)]
  /\ UNCHANGED <<probe, scored, workflow, fileVars, checkVars, attrVars, resVars, repVars>>

\* a fetcher that sends one request with per_page: 100 and no page, and
\* returns response.data
RequestOnce ==
  /\ fetch # None
  /\ probe.fetcher \notin Paginated
  /\ fetch.hasMore
  /\ LET data == PageOf(probe.objects, 1)
     IN fetch' = [fetch EXCEPT !.items = data, !.hasMore = FALSE,
                               !.responses = Append(@, data)]
  /\ UNCHANGED <<probe, scored, workflow, fileVars, checkVars, attrVars, resVars, repVars>>

(***************************************************************************)
(* publish.yml of src/github.actions.md: the jobs coherence-check,          *)
(* attribution-map and publish of one workflow run.  A job is queued until  *)
(* the jobs it needs have ended; it is skipped unless all of them           *)
(* succeeded.  The commit that was pushed is the four component scores      *)
(* coherence-check.js computes for it.                                      *)
(***************************************************************************)
PublicationThreshold == 80

PushProbes ==
  [kind : {"push"}, s : GridScores, f : GridScores, b : GridScores, l : GridScores]

\* the exit status of the step "Check coherence threshold" with the minimum
\* threshold of the per-push workflow in place of 0.8
CheckCoherenceThresholdMinimum(score) == IF score < ThresholdOverall THEN 1 ELSE 0

\* the exit status of the step "Check coherence threshold"
CheckCoherenceThreshold(score) == IF score < PublicationThreshold THEN 1 ELSE 0

\* on: push to main, or workflow_dispatch
TriggerPublish ==
  /\ probe # None
  /\ workflow = None
  /\ workflow' = [coherenceCheck |-> "queued", attributionMap |-> "queued",
                   publish |-> "queued", score |-> NoScore, deployed |-> FALSE]
  /\ UNCHANGED <<probe, scored, fetch, fileVars, checkVars, attrVars, resVars, repVars>>

\* job coherence-check: "Verify coherence" runs the script, which throws
\* (exit 1) or writes the snapshot and exits by the minimum threshold; the
\* next step runs only if that step succeeded
JobCoherenceCheck ==
  /\ workflow # None
  /\ workflow.coherenceCheck = "queued"
  /\ \E thrown \in BOOLEAN :
       LET score == calculateOverallCoherence(probe.s, probe.f, probe.b, probe.l)
           verify == IF thrown THEN 1 ELSE ExitStatus(score)
           status == IF verify = 0 THEN CheckCoherenceThreshold(score) ELSE verify
       IN workflow' = [workflow EXCEPT
                         !.coherenceCheck = IF status = 0 THEN "success" ELSE "failure",
                         !.score = IF thrown THEN NoScore ELSE score]
  /\ UNCHANGED <<probe, scored, fetch, fileVars, checkVars, attrVars, resVars, repVars>>

\* job attribution-map, needs: coherence-check; the script or jq may fail
JobAttributionMap ==
  /\ workflow # None
  /\ workflow.coherenceCheck # "queued"
  /\ workflow.attributionMap = "queued"
  /\ \E ok \in BOOLEAN :
       workflow' = [workflow EXCEPT
                      !.attributionMap = IF workflow.coherenceCheck # "success" THEN "skipped"
                                         ELSE IF ok THEN "success" ELSE "failure"]
  /\ UNCHANGED <<probe, scored, fetch, fileVars, checkVars, attrVars, resVars, repVars>>

\* job publish, needs: [coherence-check, attribution-map]; the build or the
\* deployment may fail
JobPublish ==
  /\ workflow # None
  /\ workflow.coherenceCheck # "queued"
  /\ workflow.attributionMap # "queued"
  /\ workflow.publish = "queued"
  /\ \E ok \in BOOLEAN :
       LET run == workflow.coherenceCheck = "success" /\ workflow.attributionMap = "success"
       IN workflow' = [workflow EXCEPT
                         !.publish = IF ~run THEN "skipped"
                                     ELSE IF ok THEN "success" ELSE "failure",
                         !.deployed = run /\ ok]
  /\ UNCHANGED <<probe, scored, fetch, fileVars, checkVars, attrVars, resVars, repVars>>

(***************************************************************************)
(* The classification of one marked passage: the branch of                  *)
(* analyzeContentResidue for one inline marker, on a description of up to   *)
(* MaxWords words that are keywords of the taxonomy or the plain word       *)
(* "text".                                                                  *)
(***************************************************************************)
MaxWords == 3

DetectProbes ==
  {[kind |-> "description", description |-> d] :
     d \in SeqsUpTo({"source", "citation", "unclear", "vague", "loop", "scope", "conflict",
                     "text"}, MaxWords)}

ClassifyInline ==
  /\ probe # None
  /\ residueCatalog = None
  /\ residueCatalog' = addResidueInstance(EmptyCatalog, InlineInstance(probe.description))
  /\ UNCHANGED <<pcR, sources, found, prevFound>>
  /\ UNCHANGED <<fileVars, scoreVars, checkVars, attrVars, repVars>>

(***************************************************************************)
(* Initial states: no artifact has been written and no script is running.  *)
(***************************************************************************)
\* the memory of the scripts: none is running
InitRuns ==
  /\ scored = NoScore
  /\ fetch = None
  /\ workflow = None
  /\ pcC = "idle"
  /\ docs = <<>>
  /\ platform = None
  /\ signalAlignment = Null
  /\ feedbackResponsiveness = Null
  /\ boundedIntegrity = Null
  /\ elasticTolerance = Null
  /\ overallScore = NoScore
  /\ coherenceReport = Null
  /\ exitCode = NoExit
  /\ pcA = "idle"
  /\ attributionGraph = None
  /\ folded = <<>>
  /\ prevFolded = None
  /\ pcR = "idle"
  /\ residueCatalog = None
  /\ found = <<>>
  /\ prevFound = None
  /\ pcT = "idle"
  /\ coherenceHistory = None
  /\ currentCoherence = Null
  /\ report = Null
  /\ exitT = NoExit

\* everything but the probe: an empty repository and no artifact
InitScripts ==
  /\ InitRuns
  /\ coherenceFile = Absent
  /\ attributionFile = Absent
  /\ residueFile = Absent
  /\ historyFile = Absent
  /\ reportFile = Absent
  /\ events = <<>>
  /\ sources = NoSources

Init == InitScripts /\ probe = None

\* the scoring functions, each applied to one input drawn from Probes
InitScore == InitScripts /\ probe \in Probes

NextScore ==
  \/ ApplyScore
  \/ AddCitation

SpecScore == InitScore /\ [][NextScore]_vars

NextCheck ==
  \/ StartCheck
  \/ CalcSignal
  \/ CalcFeedback
  \/ CalcBounded
  \/ CalcBoundedThrows
  \/ CalcOverall
  \/ SaveReport
  \/ ExitCheck

SpecCheck == Init /\ [][NextCheck]_vars

NextAttribution ==
  \/ AddEvent
  \/ CorruptAttribution
  \/ StartBuild
  \/ MapCode
  \/ MapIssues
  \/ MapPRs
  \/ Metrics
  \/ MetricsThrows
  \/ PlaceholderAttribution
  \/ SaveGraph

SpecAttribution == Init /\ [][NextAttribution]_vars

NextResidue ==
  \/ AddSource
  \/ ResolveInstance
  \/ CorruptResidue
  \/ StartResidue
  \/ ContentResidue
  \/ IssueResidue
  \/ PRResidue
  \/ ResidueMetrics
  \/ ResidueMetricsThrows
  \/ PlaceholderResidue
  \/ SaveCatalog

SpecResidue == Init /\ [][NextResidue]_vars

NextReport ==
  \/ CheckRuns
  \/ CorruptHistory
  \/ LoadHistory
  \/ LoadFails
  \/ AppendEntry
  \/ CallPeriodReport
  \/ WriteHistory
  \/ WriteReport
  \/ LogThrows

SpecReport == Init /\ [][NextReport]_vars

\* generatePeriodReport applied to one history, snapshot and clock reading
InitPeriod == InitScripts /\ probe \in PeriodProbes

NextPeriod == ApplyPeriod

SpecPeriod == InitPeriod /\ [][NextPeriod]_vars

\* one fetcher retrieving one collection
InitFetch == InitScripts /\ probe \in FetchProbes

NextFetch ==
  \/ StartFetch
  \/ RequestPage
  \/ RequestOnce

SpecFetch == InitFetch /\ [][NextFetch]_vars

\* one run of publish.yml for one pushed commit
InitPublish == InitScripts /\ probe \in PushProbes

NextPublish ==
  \/ TriggerPublish
  \/ JobCoherenceCheck
  \/ JobAttributionMap
  \/ JobPublish

SpecPublish == InitPublish /\ [][NextPublish]_vars

\* The three scripts that keep an artifact across runs, in a repository that
\* holds one commit, one residue item and the snapshot of a coherence-check
\* run; an artifact that was written may be left unparseable.  The scripts
\* share no variable that these actions read and write, so each behaviour
\* follows one of them: a script starts only when no other has started.
InitRestart ==
  /\ InitRuns
  /\ probe = None
  /\ coherenceFile \in Snapshots
  /\ attributionFile = Absent
  /\ residueFile = Absent
  /\ historyFile = Absent
  /\ reportFile = Absent
  /\ events = <<[kind |-> "commit", actor |-> <<"a", "-", "b">>, ts |-> 1,
                 ref |-> <<"x", "-", "y", ".", "md">>]>>
  /\ sources = [NoSources EXCEPT !.declared = <<[description |-> <<"unclear">>,
                                                   section |-> <<"intro">>]>>]

RestartBuild ==
  /\ residueFile = Absent /\ pcR = "idle"
  /\ historyFile = Absent /\ pcT = "idle"
  /\ StartBuild

RestartResidue ==
  /\ attributionFile = Absent /\ pcA = "idle"
  /\ historyFile = Absent /\ pcT = "idle"
  /\ StartResidue

RestartReport ==
  /\ attributionFile = Absent /\ pcA = "idle"
  /\ residueFile = Absent /\ pcR = "idle"
  /\ LoadHistory

NextRestart ==
  \/ CorruptAttribution
  \/ RestartBuild
  \/ MapCode
  \/ MapIssues
  \/ MapPRs
  \/ Metrics
  \/ SaveGraph
  \/ CorruptResidue
  \/ RestartResidue
  \/ ContentResidue
  \/ IssueResidue
  \/ PRResidue
  \/ ResidueMetrics
  \/ SaveCatalog
  \/ CorruptHistory
  \/ RestartReport
  \/ AppendEntry
  \/ CallPeriodReport
  \/ WriteHistory
  \/ WriteReport
  \/ LogThrows

SpecRestart == InitRestart /\ [][NextRestart]_vars

InitDetect == InitScripts /\ probe \in DetectProbes

NextDetect == ClassifyInline

SpecDetect == InitDetect /\ [][NextDetect]_vars

(***************************************************************************)
(* Properties.                                                             *)
(***************************************************************************)

\* C1: every component score and the overall score lies in [0, 1], and the
\* overall score is 0 whenever one of the four component scores is 0.
C1_ScoresWithinUnitInterval ==
  scored # NoScore =>
    /\ scored \in 0..Scale
    /\ (probe.kind = "overall" /\ 0 \in {probe.s, probe.f, probe.b, probe.l}) => scored = 0

C1_Witness ==
  /\ probe.kind = "overall"
  /\ probe.s = 0 /\ probe.f = Scale /\ probe.b = Scale /\ probe.l = Scale
  /\ scored = 0

\* C2: a check that computes an overall score exits with status 0 exactly when
\* that score is at least the configured overall threshold and with status 1
\* otherwise, and by then meta/coherence.json holds the report of this run.
C2_ExitFollowsThreshold ==
  (pcC = "exited" /\ overallScore # NoScore) =>
    /\ (exitCode = 0) = (overallScore >= ThresholdOverall)
    /\ exitCode \in {0, 1}
    /\ coherenceFile = StringifyReport(coherenceReport)
    /\ coherenceFile.overallScore = overallScore

C2_Witness ==
  /\ pcC = "exited"
  /\ overallScore >= ThresholdOverall
  /\ exitCode = 0
  /\ coherenceFile.kind = "snapshot"

\* the aggregate metrics of two graphs, the instant of their computation apart
SameMetrics(m1, m2) == [m1 EXCEPT !.lastUpdated = 0] = [m2 EXCEPT !.lastUpdated = 0]

\* C3: a builder run that starts from the graph persisted by the previous run
\* and is delivered the same event list as that run is about to write the
\* very graph that is already persisted: no node and no link is added, the
\* contribution counts and the density are the same.
C3_BuilderIdempotent ==
  (pcA = "save" /\ attributionFile.kind = "graph" /\ folded = prevFolded) =>
    /\ attributionGraph.nodes = attributionFile.nodes
    /\ attributionGraph.links = attributionFile.links
    /\ SameMetrics(StringifyGraph(attributionGraph).metadata.metrics,
                   attributionFile.metadata.metrics)

C3_Witness ==
  /\ pcA = "save"
  /\ attributionFile.kind = "graph"
  /\ folded = prevFolded
  /\ Len(folded) = MaxEvents
  /\ Len(attributionGraph.links) >= 2
  /\ attributionGraph.metadata.metrics.lastUpdated
       # attributionFile.metadata.metrics.lastUpdated

NodeIdsUnique(nodes) ==
  \A i, j \in 1..Len(nodes) : nodes[i].id = nodes[j].id => i = j

LinkKey(l) == <<l.source, l.target, l.type, l.timestamp>>

LinkKeysUnique(links) ==
  \A i, j \in 1..Len(links) : LinkKey(links[i]) = LinkKey(links[j]) => i = j

\* C4: in the graph a run is building and in the persisted graph, no two
\* nodes share an id and no two links share (source, target, kind, timestamp).
C4_IdsAndLinksUnique ==
  /\ attributionGraph \notin {None, EmptyObject} =>
       /\ NodeIdsUnique(attributionGraph.nodes)
       /\ LinkKeysUnique(attributionGraph.links)
  /\ attributionFile.kind = "graph" =>
       /\ NodeIdsUnique(attributionFile.nodes)
       /\ LinkKeysUnique(attributionFile.links)

\* a run was delivered two records of one contributor on two contents and
\* has saved one contributor node, two content nodes and two links
C4_Witness ==
  /\ pcA = "idle"
  /\ attributionFile.kind = "graph"
  /\ Len(attributionFile.nodes) >= 3
  /\ Len(attributionFile.links) = 2
  /\ prevFolded # None
  /\ Len(prevFolded) = 2
  /\ prevFolded[1].actor = prevFolded[2].actor

\* C5: every actor identity and every content reference delivered to a run
\* has its own node, so that two events share a contributor node exactly when
\* they have the same actor and share a content node exactly when they have
\* the same content reference.
C5_OneNodePerMergeKey ==
  pcA = "save" =>
    /\ \A i \in 1..Len(folded) :
         /\ Exists(attributionGraph.nodes,
                   LAMBDA node : node.type = "contributor" /\ node.name = folded[i].actor)
         /\ Exists(attributionGraph.nodes,
                   LAMBDA node : node.type # "contributor"
                                 /\ node.path = ContentPath(folded[i]))
    /\ \A i, j \in 1..Len(folded) :
         /\ (nodeId("contributor", folded[i].actor) = nodeId("contributor", folded[j].actor))
              <=> (folded[i].actor = folded[j].actor)
         /\ (nodeId("content", ContentPath(folded[i]))
               = nodeId("content", ContentPath(folded[j])))
              <=> (ContentPath(folded[i]) = ContentPath(folded[j]))

NodeIds(nodes) == {nodes[i].id : i \in 1..Len(nodes)}
LinkSet(links) == {links[i] : i \in 1..Len(links)}

\* C6: whenever the persisted graph is replaced by a persisted graph, every
\* node and every link of the old one is in the new one.
C6_PersistedGraphMonotonic ==
  [][(attributionFile.kind = "graph" /\ attributionFile'.kind = "graph") =>
       /\ NodeIds(attributionFile.nodes) \subseteq NodeIds(attributionFile'.nodes)
       /\ LinkSet(attributionFile.links) \subseteq LinkSet(attributionFile'.links)
       /\ Len(attributionFile.nodes) <= Len(attributionFile'.nodes)
       /\ Len(attributionFile.links) <= Len(attributionFile'.links)]_vars

\* a run that was delivered nothing has rewritten a graph that held links
C6_Witness ==
  /\ pcA = "idle"
  /\ attributionFile.kind = "graph"
  /\ Len(attributionFile.links) >= 1
  /\ prevFolded = <<>>

KeysUnique(instances) ==
  \A i, j \in 1..Len(instances) : Keys(instances)[i] = Keys(instances)[j] => i = j

\* C7: neither the catalog a run is building nor the persisted catalog holds
\* two instances with the same (description, section), and a run that starts
\* from the persisted catalog and is offered the same instances as the run
\* before it adds none.
C7_NoDuplicateResidue ==
  /\ residueCatalog \notin {None, EmptyObject} => KeysUnique(residueCatalog.instances)
  /\ residueFile.kind = "catalog" => KeysUnique(residueFile.instances)
  /\ (pcR = "save" /\ residueFile.kind = "catalog" /\ found = prevFound) =>
       Len(residueCatalog.instances) = Len(residueFile.instances)

\* the marked text and the detected word of f.md had the same key, and a
\* second run over the same text is about to save
C7_Witness ==
  /\ pcR = "save"
  /\ residueFile.kind = "catalog"
  /\ found = prevFound
  /\ Len(found) = 2
  /\ found[1] = found[2]
  /\ Len(residueCatalog.instances) = 1

\* C8: a run replaces the persisted catalog by one that begins with the
\* instances it held, each with every field as it was; only the reviewer
\* action changes a status, and only from active to resolved.
C8_CatalogAppendOnly ==
  [][(residueFile.kind = "catalog" /\ residueFile'.kind = "catalog") =>
       /\ Len(residueFile.instances) <= Len(residueFile'.instances)
       /\ \A i \in 1..Len(residueFile.instances) :
            \/ residueFile'.instances[i] = residueFile.instances[i]
            \/ /\ pcR = "idle"
               /\ pcR' = "idle"
               /\ residueFile.instances[i].status = "active"
               /\ residueFile'.instances[i] =
                    [residueFile.instances[i] EXCEPT !.status = "resolved"]]_vars

\* a run has saved a catalog that holds a resolved instance and a newer one
C8_Witness ==
  /\ pcR = "idle"
  /\ residueFile.kind = "catalog"
  /\ Len(residueFile.instances) = 2
  /\ residueFile.instances[1].status = "resolved"
  /\ residueFile.meta.metrics.byStatus.resolved = 1

EntriesBefore == IF historyFile.kind = "history" THEN Len(historyFile.entries) ELSE 0

\* C9: once addToCoherenceHistory has returned, the entries of the history
\* are in ascending order of timestamp and are one more than the history that
\* was loaded held; the history that is then written is in that order.
C9_HistorySortedAfterAppend ==
  /\ pcT = "report" =>
       /\ Ascending(coherenceHistory.entries)
       /\ Len(coherenceHistory.entries) = EntriesBefore + 1
       /\ coherenceHistory.metadata.entryCount = EntriesBefore + 1
  /\ historyFile.kind = "history" => Ascending(historyFile.entries)

\* the clock of the run was behind the newest entry, so the entry that was
\* pushed last is not the last one
C9_Witness ==
  /\ pcT = "report"
  /\ Len(coherenceHistory.entries) = MaxEntries
  /\ currentCoherence.timestamp < coherenceHistory.entries[MaxEntries].timestamp
  /\ coherenceHistory.entries[1] = currentCoherence

ReportKeys == {"overall", "components", "recommendations", "attribution", "residue"}

\* C10: the report file, once a run has written it, holds the overall and
\* component comparison, the recommendations and the attribution and residue
\* summaries, and it is written from the report generatePeriodReport computed.
C10_ReportFileHoldsPeriodReport ==
  /\ reportFile.kind # "absent" => ReportKeys \subseteq reportFile.keys
  /\ pcT = "log" => report # Pending

\* C11: the period report compares the snapshot this run appended with the
\* most recent snapshot of the history whose timestamp is strictly before the
\* period start (the clock minus 7 days), overall and per component; when no
\* snapshot precedes the period start, previous and change are null.
C11_ComparesAppendedWithLastBeforePeriod ==
  report # Null =>
    LET loaded == probe.history.entries
        before == {i \in 1..Len(loaded) :
                     loaded[i].timestamp < probe.now - ReportPeriodDays}
        latest == {i \in before : \A j \in before : loaded[j].timestamp <= loaded[i].timestamp}
        Compared(metrics, current, Previous(_)) ==
          /\ metrics.current = current
          /\ IF before = {}
             THEN metrics.previous = Null /\ metrics.change = Null
             ELSE \E i \in latest :
                    /\ metrics.previous = [kind |-> "number", value |-> Previous(loaded[i])]
                    /\ metrics.change = [kind |-> "number",
                                         value |-> current - Previous(loaded[i])]
    IN /\ Compared(report.overall, probe.current.overallScore, LAMBDA e : e.overallScore)
       /\ \A c \in DOMAIN probe.current.components :
            Compared(report.components[c], probe.current.components[c],
                     LAMBDA e : e.components[c])

C13_DetailsRecordSubstitution ==
  (pcC = "status" /\ platform # None) =>
    LET details == coherenceFile.details.feedbackResponsiveness
    IN /\ ~platform.openIssues.ok =>
            \A q \in RunQuery : q.ok => analyzeOpenIssues(q).rate # details[1]
       /\ ~platform.closedIssues.ok =>
            \A q \in RunQuery : q.ok => analyzeIssueResolution(q).rate # details[2]
       /\ ~platform.pulls.ok =>
            \A q \in RunQuery : q.ok => analyzePRReviews(q).rate # details[3]
       /\ ~platform.log.ok =>
            \A q \in RunLog : q.ok => analyzeContentHistory(q).rate # details[4]

\* C14: a run that finds its persisted artifact unparseable starts from the
\* empty baseline and goes on; what it then writes over the unparseable file
\* is what it built from that baseline and nothing else: the graph folded
\* from the events of this run, the catalog of the instances offered in this
\* run, the history holding the one entry of this run.
C14_UnparseableArtifactReinitialized ==
  [][/\ (attributionFile = Corrupt /\ pcA = "idle" /\ pcA' # "idle") =>
          attributionGraph' = EmptyGraph
     /\ (attributionFile = Corrupt /\ attributionFile' # Corrupt) =>
          LET fresh == calculateAttributionMetrics(foldEvents(EmptyGraph, folded), 1)
          IN /\ attributionFile'.kind = "graph"
             /\ attributionFile'.nodes = fresh.nodes
             /\ attributionFile'.links = fresh.links
     /\ (residueFile = Corrupt /\ pcR = "idle" /\ pcR' # "idle") =>
          residueCatalog' = EmptyCatalog
     /\ (residueFile = Corrupt /\ residueFile' # Corrupt) =>
          /\ residueFile'.kind = "catalog"
          /\ {Keys(residueFile'.instances)[i] : i \in 1..Len(residueFile'.instances)}
               = {found[i] : i \in 1..Len(found)}
     /\ (historyFile = Corrupt /\ pcT = "idle" /\ pcT' # "idle") =>
          coherenceHistory' = EmptyHistory
     /\ (historyFile = Corrupt /\ historyFile' # Corrupt) =>
          /\ historyFile'.kind = "history"
          /\ historyFile'.entries = <<currentCoherence>>]_vars

\* a run of the Trend Reporter that found the history unparseable has
\* appended its entry to the empty history and is about to write it
C14_Witness ==
  /\ pcT = "history"
  /\ historyFile = Corrupt
  /\ coherenceHistory.entries = <<currentCoherence>>
  /\ coherenceHistory.metadata.entryCount = 1

\* C15: a run that found no document at all, or whose revision history was
\* not available, ends as a failure and has written no artifact file.
C15_FatalInputWritesNothing ==
  (pcC = "exited" /\ (docs = <<>> \/ (platform # None /\ ~platform.log.ok))) =>
    /\ exitCode = 1
    /\ coherenceFile = Absent

\* C16: a run whose overall coherence is below the minimum threshold has
\* written the complete snapshot before it ends (the overall score, the four
\* components, their details, the metadata), the recommendations of that
\* snapshot are not empty, and the run ends with the fail status.
C16_BelowThresholdWritesCompleteSnapshot ==
  (pcC \in {"status", "exited"} /\ overallScore # NoScore
     /\ overallScore < ThresholdOverall) =>
    /\ coherenceFile = StringifyReport(coherenceReport)
    /\ coherenceFile.overallScore = overallScore
    /\ coherenceFile.components =
         [signalAlignment |-> signalAlignment.score,
          feedbackResponsiveness |-> feedbackResponsiveness.score,
          boundedIntegrity |-> boundedIntegrity.score,
          elasticTolerance |-> elasticTolerance.score]
    /\ \A c \in DOMAIN coherenceFile.components : coherenceFile.components[c] \in 0..Scale
    /\ DOMAIN coherenceFile.details = DOMAIN coherenceFile.components
    /\ \A c \in DOMAIN coherenceFile.details : Len(coherenceFile.details[c]) = 4
    /\ coherenceFile.metadata.recursiveDepth \in 1..4
    /\ Len(coherenceFile.recommendations) >= 1
    /\ pcC = "exited" => exitCode = 1

\* a run with documents ended below the threshold although its signal
\* alignment passed; the recommendations it wrote are for another component
C16_Witness ==
  /\ pcC = "exited"
  /\ docs # <<>>
  /\ overallScore # NoScore
  /\ overallScore < ThresholdOverall
  /\ signalAlignment.score >= ThresholdSignal
  /\ exitCode = 1
  /\ Len(coherenceFile.recommendations) >= 1

\* C17: no run leaves partial artifacts.  For the Trend Reporter: a run that
\* has ended in failure after it called generatePeriodReport has changed
\* neither output file: the history file does not hold the entry of that run,
\* and the report file is absent or a complete period report.
C17_FailedRunChangesNoFile ==
  (pcT = "idle" /\ exitT = 1 /\ report = Pending) =>
    /\ historyFile.kind = "history" =>
         Len(historyFile.entries) < Len(coherenceHistory.entries)
    /\ reportFile.kind # "absent" => ReportKeys \subseteq reportFile.keys

\* C18: every retrieval of platform objects requests successive pages until
\* an empty page is returned, and returns the objects of all the pages: when
\* a fetcher has returned, it holds every object of the collection, the last
\* response it received was empty and no response before that was.
C18_RetrievalReadsEveryPage ==
  (fetch # None /\ ~fetch.hasMore) =>
    /\ fetch.items = probe.objects
    /\ fetch.responses[Len(fetch.responses)] = 0
    /\ \A i \in 1..(Len(fetch.responses) - 1) : fetch.responses[i] > 0

\* C19: in the publish workflow a fail blocks: the publish job runs only
\* after the coherence-check job and the attribution-map job have both
\* succeeded, so nothing is deployed in a run whose overall coherence is
\* below the publication threshold 0.8, and that threshold is stricter than
\* the minimum threshold 0.7 of the per-push check.
C19_FailBlocksPublish ==
  /\ PublicationThreshold > ThresholdOverall
  /\ workflow # None =>
       /\ workflow.publish \in {"success", "failure"} =>
            /\ workflow.coherenceCheck = "success"
            /\ workflow.attributionMap = "success"
       /\ workflow.attributionMap \in {"success", "failure"} =>
            workflow.coherenceCheck = "success"
       /\ workflow.coherenceCheck = "success" =>
            workflow.score # NoScore /\ workflow.score >= PublicationThreshold
       /\ workflow.deployed =>
            workflow.score # NoScore /\ workflow.score >= PublicationThreshold
       /\ (workflow.coherenceCheck = "failure" /\ workflow.publish # "queued") =>
            workflow.publish = "skipped" /\ ~workflow.deployed

\* a commit that passes the per-push minimum but not the publication
\* threshold: the coherence-check job failed and publish was skipped
C19_Witness ==
  /\ workflow # None
  /\ workflow.score # NoScore
  /\ workflow.score >= ThresholdOverall
  /\ workflow.score < PublicationThreshold
  /\ workflow.coherenceCheck = "failure"
  /\ workflow.attributionMap = "skipped"
  /\ workflow.publish = "skipped"
  /\ ~workflow.deployed

\* C20: on an empty repository (no document, no issue, no pull request, no
\* commit) the coherence run does not crash: each of the four components gets
\* a value in [0,1] (topic drift its neutral value), the overall score is
\* computed from them, the snapshot is written, and the run ends with the
\* status that the threshold gives for that overall score.
C20_EmptyRepositoryRunCompletes ==
  (/\ docs = <<>>
   /\ platform # None
   /\ platform.openIssues.n = 0 /\ platform.closedIssues.n = 0
   /\ platform.pulls.n = 0 /\ platform.log.k = 0) =>
    /\ signalAlignment.score \in 0..Scale
    /\ feedbackResponsiveness.score \in 0..Scale
    /\ pcC \in {"elastic", "save", "status", "exited"} =>
         /\ boundedIntegrity.score \in 0..Scale
         /\ boundedIntegrity.details[2] = Neutral
    /\ pcC \in {"save", "status", "exited"} =>
         /\ elasticTolerance.score \in 0..Scale
         /\ overallScore \in 0..Scale
         /\ overallScore = calculateOverallCoherence(signalAlignment.score,
                             feedbackResponsiveness.score, boundedIntegrity.score,
                             elasticTolerance.score)
    /\ pcC \in {"status", "exited"} =>
         /\ coherenceFile = StringifyReport(coherenceReport)
         /\ coherenceFile.overallScore = overallScore
    /\ pcC = "exited" =>
         exitCode = (IF overallScore < ThresholdOverall THEN 1 ELSE 0)

\* a run on a repository without documents, issues and pull requests, whose
\* git log failed for want of a commit, wrote its snapshot and ended
C20_Witness ==
  /\ pcC = "exited"
  /\ docs = <<>>
  /\ platform # None
  /\ platform.openIssues.ok /\ platform.openIssues.n = 0
  /\ platform.closedIssues.ok /\ platform.closedIssues.n = 0
  /\ platform.pulls.ok /\ platform.pulls.n = 0
  /\ ~platform.log.ok
  /\ coherenceFile.kind = "snapshot"
  /\ coherenceFile.components.boundedIntegrity = boundedIntegrity.score
  /\ overallScore \in 0..Scale
  /\ exitCode \in {0, 1}

\* C21: after calculateAttributionMetrics every contributor node's
\* contributions is the number of links whose source is that node, and the
\* counts of its per-kind breakdown add up to that number; two commits of one
\* author to one file at different instants, folded into an empty graph, give
\* one contributor node, one content node, two links and contributions = 2.
C21_ContributionsCountOwnLinks ==
  pcA = "save" =>
    LET g == attributionGraph
        own(node) == {j \in 1..Len(g.links) : g.links[j].source = node.id}
        part(b, t) == IF t \in DOMAIN b THEN b[t] ELSE 0
    IN /\ \A i \in 1..Len(g.nodes) :
            g.nodes[i].type = "contributor" =>
              LET b == g.nodes[i].contributionBreakdown
              IN /\ g.nodes[i].contributions = Cardinality(own(g.nodes[i]))
                 /\ DOMAIN b \subseteq {"code", "issue", "pull_request", "review", "comment"}
                 /\ part(b, "code") + part(b, "issue") + part(b, "pull_request")
                      + part(b, "review") + part(b, "comment")
                    = g.nodes[i].contributions
       /\ (/\ attributionFile.kind # "graph"
           /\ Len(folded) = 2
           /\ folded[1].kind = "commit" /\ folded[2].kind = "commit"
           /\ folded[1].actor = folded[2].actor
           /\ folded[1].ref = folded[2].ref
           /\ folded[1].ts # folded[2].ts) =>
            /\ Len(g.nodes) = 2
            /\ g.nodes[1].type = "contributor" /\ g.nodes[2].type # "contributor"
            /\ Len(g.links) = 2
            /\ g.links[1] # g.links[2]
            /\ g.nodes[1].contributions = 2

\* the metrics of a first run over two commits of one author to one file at
\* different instants
C21_Witness ==
  /\ pcA = "save"
  /\ attributionFile = Absent
  /\ Len(folded) = 2
  /\ folded[1].kind = "commit" /\ folded[2].kind = "commit"
  /\ folded[1].actor = folded[2].actor
  /\ folded[1].ref = folded[2].ref
  /\ folded[1].ts # folded[2].ts
  /\ Len(attributionGraph.links) = 2
  /\ attributionGraph.nodes[1].contributions = 2
  /\ attributionGraph.nodes[1].contributionBreakdown["code"] = 2

\* C22: every instance of a catalog the classifier has stored has a
\* classification that is one of the five taxonomy kinds, a recursive depth
\* that is surface, intermediate or deep, a valence that is negative, neutral
\* or positive, and a status that is active, pending or resolved.
C22_InstanceFieldsWithinDomains ==
  residueFile.kind = "catalog" =>
    \A i \in 1..Len(residueFile.instances) :
      LET x == residueFile.instances[i]
      IN /\ x.classification \in {ResidueTypes[k] : k \in 1..Len(ResidueTypes)}
         /\ x.recursiveDepth \in {"Surface (linguistic/presentational)",
                                  "Intermediate (explanatory)",
                                  "Deep (conceptual/ontological)"}
         /\ x.valence \in {"Negative (obscures understanding)",
                           "Neutral (neither helps nor hinders)",
                           "Positive (reveals important boundary)"}
         /\ x.status \in {"active", "pending", "resolved"}

\* C23: for any list of sentences findUnsupportedClaims counts as a claim
\* every sentence that holds an assertion verb of the lexicon, whatever the
\* sentences before it; a claim is supported exactly when that sentence or
\* the sentence immediately after it holds a citation marker; and the claims
\* score is 1 - min(1, 2 * unsupported / claims).
C23_EveryClaimSentenceCounted ==
  (probe.kind = "signal" /\ scored # NoScore) =>
    \A a \in 1..Len(probe.articles) :
      LET sents == probe.articles[a].sents
          claims == {i \in 1..Len(sents) : sents[i].verb > 0}
          supported == {i \in claims : \/ sents[i].cites > 0
                                       \/ i < Len(sents) /\ sents[i + 1].cites > 0}
          unsupported == Cardinality(claims \ supported)
          rate == IF claims # {} THEN (unsupported * Scale) \div Cardinality(claims) ELSE 0
          result == findUnsupportedClaims(<<probe.articles[a]>>)
      IN /\ result.totalClaims = Cardinality(claims)
         /\ result.unsupportedClaims = unsupported
         /\ result.score = Scale - Min(Scale, 2 * rate)

\* C24: adding a citation marker to the documents, with the paragraph count
\* and every other input unchanged, never lowers the signal-alignment score.
C24_AddedCitationNeverLowersSignal ==
  [][(probe.kind = "signal" /\ scored # NoScore /\ probe' # probe) => scored' >= scored]_vars

\* C25: the citation score is min(1, (citations / paragraphs) / 0.5): it is
\* exactly 1 whenever there is at least one citation marker for every two
\* paragraphs (10 paragraphs with 5 markers), and it never exceeds 1.
C25_CitationScoreCappedAtTarget ==
  (probe.kind = "citations" /\ scored # NoScore) =>
    LET c == probe.articles[1].sents[1].cites
        p == probe.articles[1].paras
    IN /\ scored = Min(Scale, (((c * Scale) \div p) * Scale) \div TargetDensity)
       /\ 2 * c >= p => scored = Scale
       /\ 2 * c < p => scored < Scale
       /\ scored <= Scale

\* the score of a document of 10 paragraphs with 5 citation markers
C25_Witness ==
  /\ probe.kind = "citations"
  /\ probe.articles[1].paras = 10
  /\ probe.articles[1].sents[1].cites = 5
  /\ scored = Scale

\* C26: the history score is min(1, 2.5 * revisionRate), where revisionRate
\* is the feedback-related commits divided by all commits: a rate of 0.4
\* gives exactly 1 and every higher rate gives 1 as well.
C26_HistoryScoreCappedAtTwoFifths ==
  (probe.kind = "history" /\ scored # NoScore) =>
    LET n == probe.qLog.n
        k == probe.qLog.k
    IN /\ scored = Min(Scale, (((k * Scale) \div n) * 25) \div 10)
       /\ 5 * k >= 2 * n => scored = Scale
       /\ 5 * k < 2 * n => scored < Scale

\* the score of a log of 5 commits of which 2 are feedback-related
C26_Witness ==
  /\ probe.kind = "history"
  /\ probe.qLog.n = 5
  /\ probe.qLog.k = 2
  /\ scored = Scale

\* C27: a coherence report or an attribution graph written by a run, when it
\* is loaded again from its file, is equal to what the run wrote, for every
\* report and graph a run can produce, the graph of a run without events
\* included.
C27_WriteThenLoadIsIdentity ==
  [][/\ (pcA = "save" /\ pcA' = "idle") =>
          initializeAttributionGraph(attributionFile') = attributionGraph
     /\ (pcC = "save" /\ pcC' = "status") =>
          /\ coherenceFile'.kind = "snapshot"
          /\ [overallScore |-> coherenceFile'.overallScore,
              components |-> coherenceFile'.components,
              details |-> coherenceFile'.details,
              recommendations |-> coherenceFile'.recommendations,
              metadata |-> coherenceFile'.metadata] = coherenceReport]_vars

\* C28: detectResidueType returns the taxonomy class with the highest number
\* of keyword hits in the text, the earliest declared class among those
\* with the highest number, and Token Hesitation when no keyword is hit.
C28_HighestHitCountEarliestWins ==
  (probe.kind = "description" /\ residueCatalog # None) =>
    LET text == probe.description
        hits(k) == Cardinality(Keywords(ResidueTypes[k]) \cap WordsOf(text))
        classes == 1..Len(ResidueTypes)
        top == {k \in classes : \A j \in classes : hits(j) <= hits(k)}
        first == CHOOSE k \in top : \A j \in top : k <= j
        expected == IF \A k \in classes : hits(k) = 0
                    THEN "Token Hesitation" ELSE ResidueTypes[first]
    IN /\ Len(residueCatalog.instances) = 1
       /\ residueCatalog.instances[1].classification = expected
       /\ detectResidueType(text) = expected

\* two classes tie with one hit each and a third, declared before them, has none:
\* the passage is classified as the earlier of the two
C28_Witness ==
  /\ probe.kind = "description"
  /\ probe.description = <<"conflict", "scope", "text">>
  /\ residueCatalog # None
  /\ residueCatalog.instances[1].classification = "Boundary Erosion"

\* C29: in every attribution graph a builder run has persisted, also by a run
\* in which a fetch failed part-way through the issues or the pull requests,
\* the source of every link is the id of a contributor node of the graph and
\* its target is the id of a content node of the graph.
C29_LinkEndpointsExist ==
  attributionFile.kind = "graph" =>
    \A l \in 1..Len(attributionFile.links) :
      /\ \E n \in 1..Len(attributionFile.nodes) :
           /\ attributionFile.nodes[n].id = attributionFile.links[l].source
           /\ attributionFile.nodes[n].type = "contributor"
      /\ \E n \in 1..Len(attributionFile.nodes) :
           /\ attributionFile.nodes[n].id = attributionFile.links[l].target
           /\ attributionFile.nodes[n].type # "contributor"

\* a persisted graph of a run that mapped an issue and then could not fetch
\* its comments
C29_Witness ==
  /\ pcA = "idle"
  /\ attributionFile.kind = "graph"
  /\ Len(events) = 2
  /\ events[1].kind = "issue_open" /\ events[2].kind = "issue_comment"
  /\ prevFolded = <<events[1]>>
  /\ Len(attributionFile.links) = 1
  /\ Len(attributionFile.nodes) = 2

\* C30: a persisted artifact file that parses but lacks the expected
\* collections (the {} placeholder of the setup guide) is treated like the
\* empty baseline: the builder or the classifier starts from the empty graph
\* or catalog and the run goes on to write its artifact, it does not fail.
C30_PlaceholderTreatedAsBaseline ==
  /\ (attributionFile = EmptyObject /\ pcA # "idle") =>
       /\ pcA = "code" => attributionGraph = EmptyGraph
       /\ pcA # "failed"
  /\ (residueFile = EmptyObject /\ pcR # "idle") =>
       /\ pcR = "content" => residueCatalog = EmptyCatalog
       /\ pcR # "failed"

====
